---- MODULE Spec2Model ----
(***************************************************************************)
(* Model of the csv-merge-translate application (src/src/services/db.ts,   *)
(* whose App component is the same code as src/src/App.tsx for the merge). *)
(*                                                                         *)
(* Strings are sequences of one-character strings, so that trim, prefix   *)
(* and substring operations are computed as the JavaScript code computes  *)
(* them.  A record of a dataset is a function from column names to        *)
(* strings; a column that the record lacks reads as Undefined.             *)
(***************************************************************************)
EXTENDS Integers, Sequences, FiniteSets, TLC

(***************************************************************************)
(* Bounds of the model.                                                    *)
(***************************************************************************)
MaxSkuLen == 4
MaxDeRows == 3
MaxProductRows == 2
MaxPending == 4
MaxChunks == 2
MaxOffset == 1
MaxFiles == 2
MaxTranslated == 1

(***************************************************************************)
(* JavaScript values.                                                      *)
(***************************************************************************)
\* The value `undefined`: what reading an absent property yields.
Undefined == <<"undefined">>

\* The empty string ''.
Empty == <<>>

\* JavaScript truthiness of a string-or-undefined value.
Truthy(v) == v # Undefined /\ v # Empty

\* a || b
OrElse(a, b) == IF Truthy(a) THEN a ELSE b

\* item[key]
Get(item, key) == IF key \in DOMAIN item THEN item[key] ELSE Undefined

\* null and a non-null reference
Null == <<>>
Some(x) == <<x>>

(***************************************************************************)
(* String primitives of the JavaScript runtime.                            *)
(***************************************************************************)
IsSpace(c) == c \in {" ", "\n", "\t"}

RECURSIVE TrimStart(_)
TrimStart(s) ==
  IF s # <<>> /\ IsSpace(Head(s)) THEN TrimStart(Tail(s)) ELSE s

RECURSIVE TrimEnd(_)
TrimEnd(s) ==
  IF s # <<>> /\ IsSpace(s[Len(s)]) THEN TrimEnd(SubSeq(s, 1, Len(s) - 1)) ELSE s

\* String.prototype.trim
Trim(s) == TrimEnd(TrimStart(s))

\* Case folding used by the `i` flag of a regular expression.
LowerChar(c) ==
  CASE c = "A" -> "a" [] c = "B" -> "b" [] c = "C" -> "c" [] c = "V" -> "v"
    [] c = "W" -> "w" [] c = "X" -> "x" [] c = "Y" -> "y" [] c = "Z" -> "z"
    [] OTHER -> c

Lower(s) == [i \in 1..Len(s) |-> LowerChar(s[i])]

\* String.prototype.startsWith
StartsWith(s, p) == Len(p) <= Len(s) /\ SubSeq(s, 1, Len(p)) = p

\* String.prototype.indexOf, 1-based; 0 when p does not occur in s.
IndexOf(s, p) ==
  LET hits == {i \in 1..(Len(s) - Len(p) + 1) : SubSeq(s, i, i + Len(p) - 1) = p}
  IN IF hits = {} THEN 0 ELSE CHOOSE i \in hits : \A j \in hits : i <= j

\* String.prototype.includes
Includes(s, p) == IndexOf(s, p) # 0

\* s.replace(p, '') with a string pattern: removes the first occurrence.
RemoveFirst(s, p) ==
  LET i == IndexOf(s, p)
  IN IF i = 0 THEN s
     ELSE SubSeq(s, 1, i - 1) \o SubSeq(s, i + Len(p), Len(s))

\* s.substring(n)
Substring(s, n) == SubSeq(s, n + 1, Len(s))

(***************************************************************************)
(* normalizeSKU                                                            *)
(***************************************************************************)
\* Mutation of normalizeSKU: the suffix pattern lacks the `i` flag, so only an
\* upper-case 'V1' is removed.
normalizeSKU_CaseSensitiveSuffix(sku) ==
  IF ~Truthy(sku) THEN Empty
  ELSE
    LET t == Trim(sku)
        a == IF Len(t) >= 3 /\ Lower(SubSeq(t, 1, 3)) = <<"b", "3", "4">>
             THEN SubSeq(t, 4, Len(t)) ELSE t
        b == IF Len(a) >= 2 /\ SubSeq(a, Len(a) - 1, Len(a)) = <<"V", "1">>
             THEN SubSeq(a, 1, Len(a) - 2) ELSE a
    IN Trim(b)

normalizeSKU(sku) ==
  IF ~Truthy(sku) THEN Empty
  ELSE
    LET trimmed == Trim(sku)
        prefixMatch == Len(trimmed) >= 3
                       /\ Lower(SubSeq(trimmed, 1, 3)) = <<"b", "3", "4">>
        afterPrefix == IF prefixMatch THEN SubSeq(trimmed, 4, Len(trimmed))
                       ELSE trimmed
        suffixMatch == Len(afterPrefix) >= 2
                       /\ Lower(SubSeq(afterPrefix, Len(afterPrefix) - 1, Len(afterPrefix)))
                            = <<"v", "1">>
        afterSuffix == IF suffixMatch THEN SubSeq(afterPrefix, 1, Len(afterPrefix) - 2)
                       ELSE afterPrefix
    IN Trim(afterSuffix)

(***************************************************************************)
(* Map: a JavaScript Map is a sequence of entries in insertion order.      *)
(***************************************************************************)
MapKeys(m) == {m[i].key : i \in 1..Len(m)}

\* Map.prototype.has
MapHas(m, k) == k \in MapKeys(m)

MapIndex(m, k) == CHOOSE i \in 1..Len(m) : m[i].key = k

\* Map.prototype.get, for a key the map has
MapGet(m, k) == m[MapIndex(m, k)].value

\* Mutation of MapSet: the first record stored for a key is kept.
MapSet_FirstWins(m, k, v) ==
  IF MapHas(m, k) THEN m ELSE Append(m, [key |-> k, value |-> v])

\* Mutation of MapSet: a key that is set again moves to the end.
MapSet_MoveToEnd(m, k, v) ==
  Append(SelectSeq(m, LAMBDA e : e.key # k), [key |-> k, value |-> v])

\* Map.prototype.set: an existing key keeps its position and gets the new
\* value; a new key is appended.
MapSet(m, k, v) ==
  IF MapHas(m, k)
  THEN [m EXCEPT ![MapIndex(m, k)] = [key |-> k, value |-> v]]
  ELSE Append(m, [key |-> k, value |-> v])

\* Mutation of MapDelete: the entry is not removed.
MapDelete_Kept(m, k) == m

\* Map.prototype.delete
MapDelete(m, k) == SelectSeq(m, LAMBDA e : e.key # k)

(***************************************************************************)
(* mergeFiles: the two lookup maps.                                        *)
(***************************************************************************)
\* data.forEach(item => { if (!item.SKU) return; map.set(normalizeSKU(item.SKU), item) })
RECURSIVE PopulateMap(_, _)
PopulateMap(data, m) ==
  IF data = <<>> THEN m
  ELSE LET item == Head(data)
       IN PopulateMap(Tail(data),
                      IF ~Truthy(Get(item, "SKU")) THEN m
                      ELSE MapSet(m, normalizeSKU(Get(item, "SKU")), item))

(***************************************************************************)
(* mergeFiles: composition of the description, the title and the images.   *)
(***************************************************************************)
DescKey(i) == <<"Description 1", "Description 2", "Description 3",
                "Description 4", "Description 5">>[i]

ImageKey(i) == <<"image1", "image2", "image3", "image4", "image5", "image6",
                 "image7", "image8", "image9", "image10", "image11", "image12">>[i]

ImageKeys == {ImageKey(i) : i \in 1..12}

\* Array.prototype.join
RECURSIVE JoinWith(_, _)
JoinWith(parts, sep) ==
  IF parts = <<>> THEN Empty
  ELSE IF Len(parts) = 1 THEN parts[1]
  ELSE parts[1] \o sep \o JoinWith(Tail(parts), sep)

BlankLine == <<"\n", "\n">>

\* for (i = 1; i <= 5; i++) if (item[`Description ${i}`]) descriptions.push(...)
RECURSIVE PushDescriptions(_, _, _)
PushDescriptions(item, i, descriptions) ==
  IF i > 5 THEN descriptions
  ELSE PushDescriptions(item, i + 1,
         IF Truthy(Get(item, DescKey(i)))
         THEN Append(descriptions, Get(item, DescKey(i)))
         ELSE descriptions)

\* if (x) descriptions.push(x)
PushIf(descriptions, x) ==
  IF Truthy(x) THEN Append(descriptions, x) ELSE descriptions

\* Mutation: the DE description is put in front of the product descriptions.
CommonDescription_DeFirst(deItem, productItem) ==
  JoinWith(PushDescriptions(productItem, 1,
             PushIf(<<>>, Get(deItem, "Description 1"))), BlankLine)

\* The description of a product that is in both files.
CommonDescription(deItem, productItem) ==
  JoinWith(PushIf(PushDescriptions(productItem, 1, <<>>),
                  Get(deItem, "Description 1")), BlankLine)

\* The description of a product that is only in the Product Information file.
ProductOnlyDescription(productItem) ==
  JoinWith(PushIf(PushDescriptions(productItem, 1, <<>>),
                  Get(productItem, "Specifications")), BlankLine)

\* Title of a product that is in both files.
CommonTitle(deItem, productItem) ==
  LET title == OrElse(Get(productItem, "Name"), Empty)
      brand == Get(productItem, "Brand")
  IN IF Truthy(title) /\ Truthy(brand)
     THEN LET noBrand == IF StartsWith(title, brand)
                         THEN Trim(Substring(title, Len(brand)))
                         ELSE title
              sku == OrElse(Get(deItem, "SKU"), Get(productItem, "SKU"))
          IN IF Truthy(sku) /\ Includes(noBrand, sku)
             THEN Trim(RemoveFirst(noBrand, sku))
             ELSE noBrand
     ELSE title

\* Mutation: the brand is removed but the SKU is left in the title.
ProductOnlyTitle_SkuKept(productItem) ==
  LET title == OrElse(Get(productItem, "Name"), Empty)
      brand == Get(productItem, "Brand")
  IN IF Truthy(title) /\ Truthy(brand) /\ StartsWith(title, brand)
     THEN Trim(Substring(title, Len(brand)))
     ELSE title

\* Title of a product that is only in the Product Information file.
ProductOnlyTitle(productItem) ==
  LET title == OrElse(Get(productItem, "Name"), Empty)
      brand == Get(productItem, "Brand")
  IN IF Truthy(title) /\ Truthy(brand)
     THEN LET noBrand == IF StartsWith(title, brand)
                         THEN Trim(Substring(title, Len(brand)))
                         ELSE title
              sku == Get(productItem, "SKU")
          IN IF Truthy(sku) /\ Includes(noBrand, sku)
             THEN Trim(RemoveFirst(noBrand, sku))
             ELSE noBrand
     ELSE title

\* for (i = 1; i <= 12; i++) if (item[`image${i}`]) out[`image${i}`] = item[`image${i}`]
ImagesOf(item) == {k \in ImageKeys : Truthy(Get(item, k))}

(***************************************************************************)
(* mergeFiles: the three output shapes.                                    *)
(***************************************************************************)
CommonKeys ==
  {"SKU", "EAN", "Subcategory", "Category", "Price", "Stock", "Material",
   "Title", "Brand", "Product size", "Package size Length",
   "Package size Width", "Package size Height", "Net weight", "Gross weight",
   "Volume/CBM", "Color", "description"}

DeSoloKeys ==
  {"SKU", "EAN", "Brand", "Category", "Title", "Price", "Stock", "description"}

ProductInfoOnlyKeys ==
  {"SKU", "EAN", "Material", "Title", "Subcategory", "Category", "Brand",
   "Product size", "Package size Length", "Package size Width",
   "Package size Height", "Net weight", "Gross weight", "Volume/CBM", "Color",
   "description"}

\* Mutation: the images of a common product are taken from the product file.
mergedProduct_ProductImages(normalizedSku, deItem, productItem) ==
  [k \in CommonKeys \cup ImagesOf(productItem) |->
     CASE k = "SKU" -> normalizedSku
       [] k = "EAN" -> Get(deItem, "EAN")
       [] k = "Subcategory" -> Get(deItem, "Category")
       [] k = "Category" -> Get(productItem, "Category")
       [] k = "Price" -> Get(deItem, "Price")
       [] k = "Stock" -> Get(deItem, "Stock")
       [] k = "Material" -> Get(productItem, "Material")
       [] k = "Title" -> CommonTitle(deItem, productItem)
       [] k = "Brand" -> Get(productItem, "Brand")
       [] k = "Product size" -> Get(productItem, "Product size/cm")
       [] k = "Package size Length" -> Get(productItem, "Package size/cm L")
       [] k = "Package size Width" -> Get(productItem, "Package size/cm W")
       [] k = "Package size Height" -> Get(productItem, "Package size/cm H")
       [] k = "Net weight" -> Get(productItem, "Net weight/kg")
       [] k = "Gross weight" -> Get(productItem, "Gross weight/kg")
       [] k = "Volume/CBM" -> Get(productItem, "Volume/CBM")
       [] k = "Color" -> Get(productItem, "Color")
       [] k = "description" -> CommonDescription(deItem, productItem)
       [] OTHER -> Get(productItem, k)]

\* The record of a product that is in both files.
mergedProduct(normalizedSku, deItem, productItem) ==
  [k \in CommonKeys \cup ImagesOf(deItem) |->
     CASE k = "SKU" -> normalizedSku
       [] k = "EAN" -> Get(deItem, "EAN")
       [] k = "Subcategory" -> Get(deItem, "Category")
       [] k = "Category" -> Get(productItem, "Category")
       [] k = "Price" -> Get(deItem, "Price")
       [] k = "Stock" -> Get(deItem, "Stock")
       [] k = "Material" -> Get(productItem, "Material")
       [] k = "Title" -> CommonTitle(deItem, productItem)
       [] k = "Brand" -> Get(productItem, "Brand")
       [] k = "Product size" -> Get(productItem, "Product size/cm")
       [] k = "Package size Length" -> Get(productItem, "Package size/cm L")
       [] k = "Package size Width" -> Get(productItem, "Package size/cm W")
       [] k = "Package size Height" -> Get(productItem, "Package size/cm H")
       [] k = "Net weight" -> Get(productItem, "Net weight/kg")
       [] k = "Gross weight" -> Get(productItem, "Gross weight/kg")
       [] k = "Volume/CBM" -> Get(productItem, "Volume/CBM")
       [] k = "Color" -> Get(productItem, "Color")
       [] k = "description" -> CommonDescription(deItem, productItem)
       [] OTHER -> Get(deItem, k)]

\* Mutation: Title is copied without the '' default.
deSoloProduct_TitleNotDefaulted(normalizedSku, deItem) ==
  [k \in DeSoloKeys \cup ImagesOf(deItem) |->
     CASE k = "SKU" -> normalizedSku
       [] k = "EAN" -> Get(deItem, "EAN")
       [] k = "Brand" -> OrElse(Get(deItem, "Brand"), Empty)
       [] k = "Category" -> Get(deItem, "Category")
       [] k = "Title" -> Get(deItem, "Title")
       [] k = "Price" -> Get(deItem, "Price")
       [] k = "Stock" -> Get(deItem, "Stock")
       [] k = "description" -> OrElse(Get(deItem, "Description 1"), Empty)
       [] OTHER -> Get(deItem, k)]

\* The record of a product that is only in the DE file.
deSoloProduct(normalizedSku, deItem) ==
  [k \in DeSoloKeys \cup ImagesOf(deItem) |->
     CASE k = "SKU" -> normalizedSku
       [] k = "EAN" -> Get(deItem, "EAN")
       [] k = "Brand" -> OrElse(Get(deItem, "Brand"), Empty)
       [] k = "Category" -> Get(deItem, "Category")
       [] k = "Title" -> OrElse(Get(deItem, "Title"), Empty)
       [] k = "Price" -> Get(deItem, "Price")
       [] k = "Stock" -> Get(deItem, "Stock")
       [] k = "description" -> OrElse(Get(deItem, "Description 1"), Empty)
       [] OTHER -> Get(deItem, k)]

\* The record of a product that is only in the Product Information file.
productInfoOnly(normalizedSku, productItem) ==
  [k \in ProductInfoOnlyKeys \cup ImagesOf(productItem) |->
     CASE k = "SKU" -> normalizedSku
       [] k = "EAN" -> OrElse(Get(productItem, "EAN"), Empty)
       [] k = "Material" -> Get(productItem, "Material")
       [] k = "Title" -> ProductOnlyTitle(productItem)
       [] k = "Subcategory" -> OrElse(Get(productItem, "Title"), Empty)
       [] k = "Category" -> Get(productItem, "Category")
       [] k = "Brand" -> Get(productItem, "Brand")
       [] k = "Product size" -> Get(productItem, "Product size/cm")
       [] k = "Package size Length" -> Get(productItem, "Package size/cm L")
       [] k = "Package size Width" -> Get(productItem, "Package size/cm W")
       [] k = "Package size Height" -> Get(productItem, "Package size/cm H")
       [] k = "Net weight" -> Get(productItem, "Net weight/kg")
       [] k = "Gross weight" -> Get(productItem, "Gross weight/kg")
       [] k = "Volume/CBM" -> Get(productItem, "Volume/CBM")
       [] k = "Color" -> Get(productItem, "Color")
       [] k = "description" -> ProductOnlyDescription(productItem)
       [] OTHER -> Get(productItem, k)]

(***************************************************************************)
(* mergeFiles: the two loops.  Each result is the pushed row together with *)
(* the branch of the code that pushed it.                                  *)
(***************************************************************************)
\* for (const [normalizedSku, deItem] of deMap.entries()) { ... }
RECURSIVE CommonLoop(_, _, _, _)
CommonLoop(deMap, i, productMap, results) ==
  IF i > Len(deMap) THEN [productMap |-> productMap, results |-> results]
  ELSE
    LET normalizedSku == deMap[i].key
        deItem == deMap[i].value
    IN IF MapHas(productMap, normalizedSku)
       THEN CommonLoop(deMap, i + 1, MapDelete(productMap, normalizedSku),
              Append(results,
                [branch |-> "common",
                 row |-> mergedProduct(normalizedSku, deItem,
                                       MapGet(productMap, normalizedSku))]))
       ELSE CommonLoop(deMap, i + 1, productMap,
              Append(results,
                [branch |-> "deSolo",
                 row |-> deSoloProduct(normalizedSku, deItem)]))

\* Mutation of ProductLoop: the remaining product records are put first.
ProductLoop_First(productMap, results) ==
  [i \in 1..Len(productMap) |->
     [branch |-> "productInfoOnly",
      row |-> productInfoOnly(productMap[i].key, productMap[i].value)]]
  \o results

\* for (const [normalizedSku, productItem] of productMap.entries()) { ... }
ProductLoop(productMap, results) ==
  results \o [i \in 1..Len(productMap) |->
                [branch |-> "productInfoOnly",
                 row |-> productInfoOnly(productMap[i].key, productMap[i].value)]]

\* mergedResults at the end of the try block of mergeFiles.
MergeResults(deData, productData) ==
  LET deMap == PopulateMap(deData, <<>>)
      productMap == PopulateMap(productData, <<>>)
      common == CommonLoop(deMap, 1, productMap, <<>>)
  IN ProductLoop(common.productMap, common.results)

RowsOf(results) == [i \in 1..Len(results) |-> results[i].row]

BranchesOf(results) == [i \in 1..Len(results) |-> results[i].branch]

(***************************************************************************)
(* The rows that the two uploaded files may hold.                          *)
(***************************************************************************)
\* {SKU: 'B34X1V1', Price: '10', Stock: '5'}
De1 ==
  ("SKU" :> <<"B", "3", "4", "X", "1", "V", "1">>)
  @@ ("Price" :> <<"1", "0">>)
  @@ ("Stock" :> <<"5">>)

\* A second DE row of key X1, with every column the merge reads.
De2 ==
  ("SKU" :> <<"X", "1">>)
  @@ ("EAN" :> <<"e", "1">>)
  @@ ("Brand" :> <<"A", "c", "m", "e">>)
  @@ ("Category" :> <<"S", "u", "b">>)
  @@ ("Title" :> <<"T", "1">>)
  @@ ("Price" :> <<"2", "0">>)
  @@ ("Stock" :> <<"7">>)
  @@ ("Description 1" :> <<"p", "1">>)
  @@ ("image1" :> <<"u", "1">>)
  @@ ("image2" :> Empty)

\* Key Y2 written ' b34Y2v1 '; no Brand, Category, Price or Stock.
De3 ==
  ("SKU" :> <<" ", "b", "3", "4", "Y", "2", "v", "1", " ">>)
  @@ ("Title" :> <<"T", "y">>)
  @@ ("Description 1" :> Empty)
  @@ ("image3" :> <<"u", "3">>)

\* A row with an empty SKU.
De4 ==
  ("SKU" :> Empty)
  @@ ("Price" :> <<"1">>)

\* A row whose SKU is only the prefix.
De5 ==
  ("SKU" :> <<"B", "3", "4">>)
  @@ ("Price" :> <<"2">>)

\* {SKU: 'X1', Name: 'Acme X1 Widget', Brand: 'Acme', Category: 'Widgets', 'Description 1': 'd1'}
Pr1 ==
  ("SKU" :> <<"X", "1">>)
  @@ ("Name" :> <<"A", "c", "m", "e", " ", "X", "1", " ", "W", "i", "d", "g", "e", "t">>)
  @@ ("Brand" :> <<"A", "c", "m", "e">>)
  @@ ("Category" :> <<"W", "i", "d", "g", "e", "t", "s">>)
  @@ ("Description 1" :> <<"d", "1">>)

\* A second product row of key X1: no Brand, the Name contains the SKU.
Pr2 ==
  ("SKU" :> <<"X", "1">>)
  @@ ("Name" :> <<"X", "1", " ", "W", "i", "d", "g", "e", "t">>)
  @@ ("Category" :> <<"W", "2">>)
  @@ ("Title" :> <<"S", "t">>)
  @@ ("Material" :> <<"m">>)
  @@ ("Color" :> <<"c">>)
  @@ ("Product size/cm" :> <<"9">>)
  @@ ("Net weight/kg" :> <<"3">>)
  @@ ("Description 1" :> Empty)
  @@ ("Description 2" :> <<"d", "2">>)
  @@ ("Description 5" :> <<"d", "5">>)
  @@ ("Specifications" :> <<"s", "p">>)
  @@ ("image1" :> <<"s", "1">>)

\* Key Z3 written 'Z3V1'; the Name contains the SKU twice.
Pr3 ==
  ("SKU" :> <<"Z", "3", "V", "1">>)
  @@ ("Name" :> <<"A", "c", "m", "e", " ", "Z", "3", "V", "1", " ", "Z", "3", "V", "1">>)
  @@ ("Brand" :> <<"A", "c", "m", "e">>)
  @@ ("Description 3" :> <<"d", "3">>)
  @@ ("Specifications" :> <<"s", "p">>)
  @@ ("image2" :> <<"s", "2">>)

\* Key Y2; the Name does not start with the Brand; no description at all.
Pr4 ==
  ("SKU" :> <<"Y", "2">>)
  @@ ("Name" :> <<"B", "o", "l", "t", " ", "Y", "2">>)
  @@ ("Brand" :> <<"A", "c", "m", "e">>)
  @@ ("Title" :> Empty)
  @@ ("Description 4" :> Empty)

DePool == {De1, De2, De3, De4, De5}

ProductPool == {Pr1, Pr2, Pr3, Pr4}

\* The sequences of at most n elements of S.
SeqsUpTo(S, n) == UNION {[1..k -> S] : k \in 0..n}

DeContents == SeqsUpTo(DePool, MaxDeRows)

ProductContents == SeqsUpTo(ProductPool, MaxProductRows)

\* The files that the user picks in the interactive runs.
DeUploads == {<<De1>>, <<De3, De2>>}

ProductUploads == {<<Pr3, Pr2>>}

(***************************************************************************)
(* State.                                                                  *)
(***************************************************************************)
VARIABLES
  deFile,         \* useState<FileData | null>: the DE file
  productFile,    \* useState<FileData | null>: the Product Information file
  isProcessed,    \* useState(false)
  isLoading,      \* useState(false)
  activeTab,      \* useState<TabType>('de')
  mergedData,     \* useState<any[] | null>: the unified set
  isMerged,       \* useState(false)
  mergedBranches, \* for each row of mergedData, the branch of mergeFiles that pushed it
  deInput,        \* the rows of the file held by the element 'de-file', or null
  productInput,   \* the rows of the file held by the element 'product-file', or null
  store,          \* the object store 'files': slot -> FileData | null
  pending,        \* requests issued to the object store and not yet settled
  sku,            \* the argument of a call of normalizeSKU
  normalized,     \* the value that call returned
  isExtracting,   \* useState(false)
  extracting,     \* the data of the call of extractColumns that is running, or null
  zipFiles,       \* the entries of the last extracted_columns.zip downloaded, or null
  extractResult,  \* the way the last call of extractColumns returned
  notification,   \* useState<{message, type} | null>(null)
  translatedFiles,\* useState<{[key: string]: any[]}>({})
  imported,       \* the last call of handleTranslatedFileChange, or null
  isReplacingColumns,   \* useState(false)
  translatedMergedData, \* useState<any[] | null>(null): the final derived set
  replaceResult   \* the way the last call of replaceColumnsWithTranslations returned

vars == <<deFile, productFile, isProcessed, isLoading, activeTab, mergedData,
          isMerged, mergedBranches, deInput, productInput, store, pending,
          sku, normalized, isExtracting, extracting, zipFiles, extractResult,
          notification, translatedFiles, imported, isReplacingColumns,
          translatedMergedData, replaceResult>>

\* The state of the generation of the translated table.
replaceVars == <<isReplacingColumns, translatedMergedData, replaceResult>>

\* The state of the extraction and of the import of translated columns.
translationVars == <<isExtracting, extracting, zipFiles, extractResult,
                     notification, translatedFiles, imported, replaceVars>>

\* FileData: content and mergedData are optional properties, Null when absent.
FileData(id, content, merged) ==
  [id |-> id, content |-> content, mergedData |-> merged]

EmptyStore == [slot \in {"deFile", "productFile", "mergedData"} |-> Null]

\* A request to the object store: store.put(data) or store.delete(id), with
\* the records that the caller saves next, one after the other, once the
\* request has succeeded.
PutRequest(data, then) ==
  [op |-> "put", id |-> data.id, data |-> Some(data), then |-> then]

DeleteRequest(id) == [op |-> "delete", id |-> id, data |-> Null, then |-> <<>>]

\* The effect updateDB run with the values of deFile, productFile and
\* mergedData of a render: the requests it issues at once, i.e. the first
\* db.saveFile of `if (deFile) await ...; if (productFile) await ...;
\* if (mergedData) await ...`, which carries the rest.
updateDB(de, product, merged) ==
  LET records ==
        (IF de # Null THEN <<de[1]>> ELSE <<>>)
        \o (IF product # Null THEN <<product[1]>> ELSE <<>>)
        \o (IF merged # Null THEN <<FileData("mergedData", merged, Null)>>
            ELSE <<>>)
  IN IF records = <<>> THEN <<>>
     ELSE <<PutRequest(Head(records), Tail(records))>>

InitTranslation ==
  /\ isExtracting = FALSE
  /\ extracting = Null
  /\ zipFiles = Null
  /\ extractResult = "none"
  /\ notification = Null
  /\ translatedFiles = <<>>
  /\ imported = Null
  /\ isReplacingColumns = FALSE
  /\ translatedMergedData = Null
  /\ replaceResult = "none"

InitUI ==
  /\ deFile = Null
  /\ productFile = Null
  /\ isProcessed = FALSE
  /\ isLoading = FALSE
  /\ activeTab = "de"
  /\ mergedData = Null
  /\ isMerged = FALSE
  /\ mergedBranches = <<>>
  /\ deInput = Null
  /\ productInput = Null
  /\ store = EmptyStore
  /\ pending = <<>>
  /\ InitTranslation

Init ==
  /\ InitUI
  /\ sku = Undefined
  /\ normalized = Undefined

(***************************************************************************)
(* Handlers.                                                               *)
(***************************************************************************)
\* handleFileChange(event, setDeFile) with a file of an allowed type.
handleFileChangeDe ==
  /\ Len(pending) < MaxPending
  /\ deFile' = Some(FileData("deFile", Null, Null))
  /\ \E rows \in DeUploads : deInput' = Some(rows)
  /\ pending' = pending \o updateDB(deFile', productFile, mergedData)
  /\ UNCHANGED <<productFile, isProcessed, isLoading, activeTab, mergedData,
                 isMerged, mergedBranches, productInput, store,
                 sku, normalized, translationVars>>

\* handleFileChange(event, setProductFile) with a file of an allowed type.
handleFileChangeProduct ==
  /\ Len(pending) < MaxPending
  /\ productFile' = Some(FileData("productFile", Null, Null))
  /\ \E rows \in ProductUploads : productInput' = Some(rows)
  /\ pending' = pending \o updateDB(deFile, productFile', mergedData)
  /\ UNCHANGED <<deFile, isProcessed, isLoading, activeTab, mergedData,
                 isMerged, mergedBranches, deInput, store,
                 sku, normalized, translationVars>>

\* prev => prev ? { ...prev, content } : null
WithContent(prev, content) ==
  IF prev # Null THEN Some([prev[1] EXCEPT !.content = Some(content)]) ELSE Null

\* handleProcessFiles, both parses succeeding.
handleProcessFiles ==
  /\ deInput # Null /\ productInput # Null
  /\ Len(pending) < MaxPending
  /\ LET deContent == deInput[1]
         productContent == productInput[1]
     IN /\ deFile' = WithContent(deFile, deContent)
        /\ productFile' = WithContent(productFile, productContent)
  /\ pending' = pending \o updateDB(deFile', productFile', mergedData)
  /\ isProcessed' = TRUE
  /\ isLoading' = FALSE
  /\ UNCHANGED <<activeTab, mergedData, isMerged, mergedBranches, deInput,
                 productInput, store, sku, normalized, translationVars>>

HasContent(file) == file # Null /\ file[1].content # Null

\* mergeFiles
mergeFiles ==
  /\ HasContent(deFile) /\ HasContent(productFile)
  /\ Len(pending) + 2 <= MaxPending
  /\ LET mergedResults == MergeResults(deFile[1].content[1], productFile[1].content[1])
         updatedDeFile == [deFile[1] EXCEPT !.mergedData = Some(RowsOf(mergedResults))]
     IN /\ mergedData' = Some(RowsOf(mergedResults))
        /\ mergedBranches' = BranchesOf(mergedResults)
        /\ isMerged' = TRUE
        /\ deFile' = Some(updatedDeFile)
        /\ pending' = Append(pending, PutRequest(updatedDeFile, <<>>))
                      \o updateDB(deFile', productFile, mergedData')
  /\ activeTab' = "merged"
  /\ isLoading' = FALSE
  /\ UNCHANGED <<productFile, isProcessed, deInput, productInput, store,
                 sku, normalized, translationVars>>

\* handleClear
handleClear ==
  /\ Len(pending) + 3 <= MaxPending
  /\ deFile' = Null
  /\ productFile' = Null
  /\ isProcessed' = FALSE
  /\ mergedData' = Null
  /\ isMerged' = FALSE
  /\ mergedBranches' = <<>>
  /\ pending' = pending \o
       <<DeleteRequest("deFile"), DeleteRequest("productFile"),
         DeleteRequest("mergedData")>>
       \o updateDB(deFile', productFile', mergedData')
  /\ UNCHANGED <<isLoading, activeTab, deInput, productInput, store,
                 sku, normalized, translationVars>>

\* The oldest request to the object store succeeds: store.put or store.delete;
\* the caller that awaited it issues its next db.saveFile.
DbSettle ==
  /\ pending # <<>>
  /\ store' = [store EXCEPT ![Head(pending).id] = Head(pending).data]
  /\ pending' = Tail(pending) \o
       (IF Head(pending).then = <<>> THEN <<>>
        ELSE <<PutRequest(Head(Head(pending).then), Tail(Head(pending).then))>>)
  /\ UNCHANGED <<deFile, productFile, isProcessed, isLoading, activeTab,
                 mergedData, isMerged, mergedBranches, deInput, productInput,
                 sku, normalized, translationVars>>

(***************************************************************************)
(* extractColumns: the batches written for translation.                    *)
(***************************************************************************)
\* const columnsToExtract = ['Subcategory', 'Category', 'Title', 'description']
columnsToExtract == <<"Subcategory", "Category", "Title", "description">>

\* const ROWS_PER_FILE = 600
ROWS_PER_FILE == 600

\* Math.min
MathMin(a, b) == IF a <= b THEN a ELSE b

\* Math.ceil(a / b) for a >= 0 and b > 0
MathCeilDiv(a, b) == (a + b - 1) \div b

\* columnsToExtract.filter(col => !Object.keys(data[0]).includes(col))
missingColumns(data) ==
  SelectSeq(columnsToExtract, LAMBDA col : col \notin DOMAIN data[1])

\* Mutation of ExtractedRow: an absent SKU or value is written as it is.
ExtractedRow_NotDefaulted(row, index, column) ==
  [row_index |-> index,
   SKU |-> Get(row, "SKU"),
   value |-> Get(row, column)]

\* {row_index: index, SKU: row.SKU || '', [column]: row[column] || ''}
\* The field `value` stands for the field named by the column.
ExtractedRow(row, index, column) ==
  [row_index |-> index,
   SKU |-> OrElse(Get(row, "SKU"), Empty),
   value |-> OrElse(Get(row, column), Empty)]

\* The file `${column.toLowerCase()}.xlsx` of a column other than
\* description: one row for every row of data, in order.  chunk and of are
\* 0 for a file that is not one of a series.
ColumnFile(data, column) ==
  [column |-> column, chunk |-> 0, of |-> 0,
   rows |-> [i \in 1..Len(data) |-> ExtractedRow(data[i], i - 1, column)]]

\* Mutation of DescriptionFile: row_index restarts at 0 in every chunk.
DescriptionFile_LocalIndex(data, chunkIndex, totalChunks) ==
  LET start == chunkIndex * ROWS_PER_FILE
      end == MathMin(start + ROWS_PER_FILE, Len(data))
      chunk == SubSeq(data, start + 1, end)
  IN [column |-> "description", chunk |-> chunkIndex + 1, of |-> totalChunks,
      rows |-> [l \in 1..Len(chunk) |->
                  ExtractedRow(chunk[l], l - 1, "description")]]

\* The file `description_${chunkIndex + 1}_of_${totalChunks}.xlsx`.
DescriptionFile(data, chunkIndex, totalChunks) ==
  LET start == chunkIndex * ROWS_PER_FILE
      end == MathMin(start + ROWS_PER_FILE, Len(data))
      chunk == SubSeq(data, start + 1, end)
  IN [column |-> "description", chunk |-> chunkIndex + 1, of |-> totalChunks,
      rows |-> [l \in 1..Len(chunk) |->
                  ExtractedRow(chunk[l], start + (l - 1), "description")]]

\* Mutation of DescriptionFiles: the description is written as one file.
DescriptionFiles_Single(data) ==
  <<[column |-> "description", chunk |-> 1, of |-> 1,
     rows |-> [i \in 1..Len(data) |->
                 ExtractedRow(data[i], i - 1, "description")]]>>

\* The files of the description column.
DescriptionFiles(data) ==
  LET totalChunks == MathCeilDiv(Len(data), ROWS_PER_FILE)
  IN [k \in 1..totalChunks |-> DescriptionFile(data, k - 1, totalChunks)]

\* The entries of the zip after the loop over columnsToExtract.
ZipEntries(data) ==
  <<ColumnFile(data, "Subcategory"), ColumnFile(data, "Category"),
    ColumnFile(data, "Title")>> \o DescriptionFiles(data)

\* The button "Extract Columns for Translation" is rendered and enabled.
ExtractButton ==
  /\ activeTab = "merged"
  /\ mergedData # Null
  /\ Len(mergedData[1]) > 0
  /\ ~isExtracting

\* extractColumns(mergedData) when data[0] lacks one of the columns: the
\* function returns from its try block and the finally block runs.
extractColumnsMissing ==
  /\ ExtractButton
  /\ missingColumns(mergedData[1]) # <<>>
  /\ isExtracting' = FALSE
  /\ extractResult' = "missingColumns"
  /\ UNCHANGED <<deFile, productFile, isProcessed, isLoading, activeTab,
                 mergedData, isMerged, mergedBranches, deInput, productInput,
                 store, pending, sku, normalized, extracting, zipFiles,
                 notification, translatedFiles, imported, replaceVars>>

\* extractColumns(mergedData) up to its first await.
extractColumnsBegin ==
  /\ ExtractButton
  /\ missingColumns(mergedData[1]) = <<>>
  /\ isExtracting' = TRUE
  /\ extracting' = Some(mergedData[1])
  /\ UNCHANGED <<deFile, productFile, isProcessed, isLoading, activeTab,
                 mergedData, isMerged, mergedBranches, deInput, productInput,
                 store, pending, sku, normalized, zipFiles, extractResult,
                 notification, translatedFiles, imported, replaceVars>>

\* extractColumns from its first await to its end: the files are written,
\* the zip is downloaded and the finally block runs.
extractColumnsEnd ==
  /\ extracting # Null
  /\ zipFiles' = Some(ZipEntries(extracting[1]))
  /\ extracting' = Null
  /\ isExtracting' = FALSE
  /\ extractResult' = "downloaded"
  /\ UNCHANGED <<deFile, productFile, isProcessed, isLoading, activeTab,
                 mergedData, isMerged, mergedBranches, deInput, productInput,
                 store, pending, sku, normalized, notification,
                 translatedFiles, imported, replaceVars>>

(***************************************************************************)
(* handleTranslatedFileChange: the import of translated columns.           *)
(* A parsed row is the sequence of its cells [key, value] in the order of  *)
(* Object.keys; sheet_to_json with defval '' gives every row of a sheet    *)
(* the same keys and a string for every value.                             *)
(***************************************************************************)
\* The characters outside ASCII are written as their code points: "U+0160" is
\* the capital S with caron and "U+0161" the small one.
UpperChars ==
  <<"A", "B", "C", "D", "E", "F", "G", "H", "I", "J", "K", "L", "M", "N",
    "O", "P", "Q", "R", "S", "T", "U", "V", "W", "X", "Y", "Z", "U+0160">>

LowerChars ==
  <<"a", "b", "c", "d", "e", "f", "g", "h", "i", "j", "k", "l", "m", "n",
    "o", "p", "q", "r", "s", "t", "u", "v", "w", "x", "y", "z", "U+0161">>

\* The lower-case form of every upper-case character
UpperToLower ==
  [c \in {UpperChars[i] : i \in 1..Len(UpperChars)} |->
     LowerChars[CHOOSE i \in 1..Len(UpperChars) : UpperChars[i] = c]]

\* String.prototype.toLowerCase on one character
toLowerCaseChar(c) == IF c \in DOMAIN UpperToLower THEN UpperToLower[c] ELSE c

\* String.prototype.toLowerCase
toLowerCase(s) == [i \in 1..Len(s) |-> toLowerCaseChar(s[i])]

\* columnName as a string
ColumnName(column) ==
  CASE column = "Subcategory" -> <<"S", "u", "b", "c", "a", "t", "e", "g", "o", "r", "y">>
    [] column = "Category" -> <<"C", "a", "t", "e", "g", "o", "r", "y">>
    [] column = "Title" -> <<"T", "i", "t", "l", "e">>
    [] column = "description" -> <<"d", "e", "s", "c", "r", "i", "p", "t", "i", "o", "n">>

\* const columnTranslations = {...}
columnTranslations(column) ==
  CASE column = "Subcategory" ->
         <<<<"s", "u", "b", "k", "a", "t", "e", "g", "o", "r", "i", "j", "a">>,
           <<"u", "n", "d", "e", "r", "k", "a", "t", "e", "g", "o", "r", "i">>,
           <<"u", "n", "d", "e", "r", "k", "a", "t", "e", "g", "o", "r", "i">>,
           <<"a", "l", "a", "l", "u", "o", "k", "k", "a">>,
           <<"u", "n", "d", "e", "r", "k", "a", "t", "e", "g", "o", "r", "i">>>>
    [] column = "Category" ->
         <<<<"k", "a", "t", "e", "g", "o", "r", "i", "j", "a">>,
           <<"k", "a", "t", "e", "g", "o", "r", "i">>,
           <<"k", "a", "t", "e", "g", "o", "r", "i">>,
           <<"l", "u", "o", "k", "k", "a">>,
           <<"k", "a", "t", "e", "g", "o", "r", "i">>>>
    [] column = "Title" ->
         <<<<"p", "a", "v", "a", "d", "i", "n", "i", "m", "a", "s">>,
           <<"t", "i", "t", "e", "l">>,
           <<"t", "i", "t", "e", "l">>,
           <<"o", "t", "s", "i", "k", "k", "o">>,
           <<"t", "i", "t", "t", "e", "l">>>>
    [] column = "description" ->
         <<<<"a", "p", "r", "a", "U+0161", "y", "m", "a", "s">>,
           <<"B", "e", "s", "k", "r", "i", "v", "n", "i", "n", "g">>,
           <<"b", "e", "s", "k", "r", "i", "v", "e", "l", "s", "e">>,
           <<"k", "u", "v", "a", "u", "s">>,
           <<"b", "e", "s", "k", "r", "i", "v", "e", "l", "s", "e">>>>

\* Array.prototype.includes
ArrayIncludes(array, x) == \E i \in 1..Len(array) : array[i] = x

\* Object.keys(row)
ObjectKeys(row) == [i \in 1..Len(row) |-> row[i].key]

\* keys[i] for a 0-based i: undefined beyond the end of the array
KeyAt(keys, i) == IF i + 1 <= Len(keys) THEN keys[i + 1] ELSE Undefined

\* keys.find(test), `hits` being the positions of the keys that pass the
\* test: the first key that passes, or undefined
Find(keys, hits) ==
  IF hits = {} THEN Undefined
  ELSE keys[CHOOSE i \in hits : \A j \in hits : i <= j]

\* row[key]: a key that is undefined reads the property named 'undefined'
RowGet(row, key) ==
  LET name == IF key = Undefined THEN <<"u", "n", "d", "e", "f", "i", "n", "e", "d">> ELSE key
      hits == {i \in 1..Len(row) : row[i].key = name}
  IN IF hits = {} THEN Undefined ELSE row[CHOOSE i \in hits : TRUE].value

\* Mutation of rowIndexKey: the name is compared as it is written.
rowIndexKey_CaseSensitive(keys) ==
  OrElse(Find(keys, {i \in 1..Len(keys) : keys[i] = <<"r", "o", "w", "_", "i", "n", "d", "e", "x">>}),
         KeyAt(keys, 0))

\* keys.find(k => k.toLowerCase() === 'row_index') || keys[0]
rowIndexKey(keys) ==
  OrElse(Find(keys, {i \in 1..Len(keys) :
                       toLowerCase(keys[i]) = <<"r", "o", "w", "_", "i", "n", "d", "e", "x">>}),
         KeyAt(keys, 0))

\* keys.find(k => k.toLowerCase() === 'sku') || keys[1]
skuKey(keys) ==
  OrElse(Find(keys, {i \in 1..Len(keys) : toLowerCase(keys[i]) = <<"s", "k", "u">>}),
         KeyAt(keys, 1))

\* keys.find(k => possibleTranslations.includes(k.toLowerCase()) ||
\*                k.toLowerCase() === columnName.toLowerCase()) || keys[2]
dataKey(keys, column) ==
  LET possibleTranslations == columnTranslations(column)
  IN OrElse(Find(keys, {i \in 1..Len(keys) :
                          \/ ArrayIncludes(possibleTranslations, toLowerCase(keys[i]))
                          \/ toLowerCase(keys[i]) = toLowerCase(ColumnName(column))}),
            KeyAt(keys, 2))

\* The keys found for a row: what the handler logs as 'Row mapping'.
RowMapping(row, column) ==
  [foundRowIndexKey |-> rowIndexKey(ObjectKeys(row)),
   foundSkuKey |-> skuKey(ObjectKeys(row)),
   foundDataKey |-> dataKey(ObjectKeys(row), column),
   availableKeys |-> ObjectKeys(row)]

\* Mutation of Skipped: a row whose value is '' is skipped too.
Skipped_Blank(row, column) ==
  ~Truthy(RowGet(row, RowMapping(row, column).foundDataKey))

\* if (value === undefined) { skippedRows++; return null; }
Skipped(row, column) ==
  RowGet(row, RowMapping(row, column).foundDataKey) = Undefined

\* {row_index: processedRowIndex, SKU: processedSku, [columnName]: value}
\* The field `value` stands for the field named by the column.
StandardizedRow(row, column) ==
  LET mapping == RowMapping(row, column)
      rowIndex == RowGet(row, mapping.foundRowIndexKey)
      rowSku == RowGet(row, mapping.foundSkuKey)
  IN [row_index |-> IF rowIndex = Undefined THEN <<"0">> ELSE rowIndex,
      SKU |-> IF rowSku = Undefined THEN Empty ELSE rowSku,
      value |-> RowGet(row, mapping.foundDataKey)]

\* fileData.map(row => ...).filter(row => row !== null)
StandardizedData(fileData, column) ==
  LET kept == SelectSeq(fileData, LAMBDA row : ~Skipped(row, column))
  IN [i \in 1..Len(kept) |-> StandardizedRow(kept[i], column)]

\* The number of times skippedRows++ ran for a file.
SkippedIn(fileData, column) ==
  Len(SelectSeq(fileData, LAMBDA row : Skipped(row, column)))

\* allRows and skippedRows after the loop over the files
RECURSIVE ProcessFiles(_, _, _, _)
ProcessFiles(files, column, allRows, skippedRows) ==
  IF files = <<>> THEN [allRows |-> allRows, skippedRows |-> skippedRows]
  ELSE ProcessFiles(Tail(files), column,
                    allRows \o StandardizedData(Head(files), column),
                    skippedRows + SkippedIn(Head(files), column))

DigitChars == <<"0", "1", "2", "3", "4", "5", "6", "7", "8", "9">>

\* String(n) for an integer n >= 0
RECURSIVE Digits(_)
Digits(n) ==
  IF n < 10 THEN <<DigitChars[n + 1]>>
  ELSE Digits(n \div 10) \o <<DigitChars[(n % 10) + 1]>>

IsDigit(c) == \E d \in 1..10 : DigitChars[d] = c

DigitValue(c) == (CHOOSE d \in 1..10 : DigitChars[d] = c) - 1

\* The value of a sequence of decimal digits, read from the left.
RECURSIVE DigitsValue(_, _)
DigitsValue(s, acc) ==
  IF s = <<>> \/ ~IsDigit(Head(s)) THEN acc
  ELSE DigitsValue(Tail(s), 10 * acc + DigitValue(Head(s)))

\* parseInt(s, 10): leading white space is skipped, a sign is read, then the
\* longest run of digits; NaN when there is no digit.
parseInt(s) ==
  LET t == TrimStart(s)
      signed == t # <<>> /\ Head(t) \in {"-", "+"}
      digits == IF signed THEN Tail(t) ELSE t
  IN IF digits = <<>> \/ ~IsDigit(Head(digits)) THEN [nan |-> TRUE, n |-> 0]
     ELSE [nan |-> FALSE,
           n |-> IF signed /\ Head(t) = "-" THEN 0 - DigitsValue(digits, 0)
                 ELSE DigitsValue(digits, 0)]

\* The comparator of allRows.sort: the sign of
\* (isNaN(indexA) ? Infinity : indexA) - (isNaN(indexB) ? Infinity : indexB),
\* a NaN difference (Infinity - Infinity) counting as 0.
CompareRows(a, b) ==
  LET indexA == parseInt(a.row_index)
      indexB == parseInt(b.row_index)
  IN CASE indexA.nan /\ indexB.nan -> 0
       [] indexA.nan -> 1
       [] indexB.nan -> -1
       [] indexA.n < indexB.n -> -1
       [] indexA.n > indexB.n -> 1
       [] OTHER -> 0

\* A row inserted into a sorted array after the rows that do not follow it.
RECURSIVE InsertRow(_, _)
InsertRow(sorted, row) ==
  IF sorted = <<>> THEN <<row>>
  ELSE IF CompareRows(row, sorted[Len(sorted)]) < 0
       THEN Append(InsertRow(SubSeq(sorted, 1, Len(sorted) - 1), row),
                   sorted[Len(sorted)])
       ELSE Append(sorted, row)

\* The rows inserted one after the other, in their order, into a sorted
\* array; the rows are taken by halves to keep the evaluation shallow.
RECURSIVE SortInto(_, _)
SortInto(sorted, rows) ==
  IF rows = <<>> THEN sorted
  ELSE IF Len(rows) = 1 THEN InsertRow(sorted, rows[1])
  ELSE LET half == Len(rows) \div 2
       IN CHOOSE all \in {SortInto(first, SubSeq(rows, half + 1, Len(rows))) :
                            first \in {SortInto(sorted, SubSeq(rows, 1, half))}} : TRUE

\* Array.prototype.sort with CompareRows: the sort is stable.
SortRows(rows) == SortInto(<<>>, rows)

\* Mutation of SortedRows: the rows are sorted whatever the number of files.
SortedRows_Always(files, allRows) == SortRows(allRows)

\* if (files.length > 1) { allRows.sort(...) }
SortedRows(files, allRows) ==
  IF Len(files) > 1 THEN SortRows(allRows) ELSE allRows

\* Mutation of StoreRow: the first row read for a SKU is kept.
StoreRow_FirstWins(rowsBySku, row) ==
  IF Truthy(row.SKU) /\ ~MapHas(rowsBySku, row.SKU)
  THEN MapSet(rowsBySku, row.SKU, row)
  ELSE rowsBySku

\* row => { if (row.SKU) { rowsBySku.set(row.SKU, row); } }
StoreRow(rowsBySku, row) ==
  IF Truthy(row.SKU) THEN MapSet(rowsBySku, row.SKU, row) ELSE rowsBySku

\* allRows.forEach(...) on the map rowsBySku: the rows are stored one after
\* the other, in their order; they are taken by halves to keep the
\* evaluation shallow.
RECURSIVE RowsBySku(_, _)
RowsBySku(allRows, rowsBySku) ==
  IF allRows = <<>> THEN rowsBySku
  ELSE IF Len(allRows) = 1 THEN StoreRow(rowsBySku, allRows[1])
  ELSE LET half == Len(allRows) \div 2
       IN CHOOSE all \in {RowsBySku(SubSeq(allRows, half + 1, Len(allRows)), first) :
                            first \in {RowsBySku(SubSeq(allRows, 1, half), rowsBySku)}} : TRUE

\* Array.from(map.values())
MapValues(m) == [i \in 1..Len(m) |-> m[i].value]

\* The section "Import Translated Columns" is rendered.
ImportSection == isMerged /\ mergedData # Null /\ Len(mergedData[1]) > 0

\* Mutation of SpreadColumn: the rows of a column that already has
\* translations are kept and the new rows are added after them.
SpreadColumn_Merged(prev, column, rows) ==
  IF MapHas(prev, column)
  THEN MapSet(prev, column, MapGet(prev, column) \o rows)
  ELSE MapSet(prev, column, rows)

\* setTranslatedFiles(prev => ({...prev, [columnName]: rows})): the object
\* spread keeps every other column and gives `column` the new rows.
SpreadColumn(prev, column, rows) == MapSet(prev, column, rows)

\* Mutation of StoredTranslations: an import without valid rows stores an
\* empty list for the column.
StoredTranslations_EmptyStored(prev, column, allRows) ==
  SpreadColumn(prev, column, MapValues(RowsBySku(allRows, <<>>)))

\* The translations after an import: with no row left the handler throws
\* before setTranslatedFiles and the catch only logs, so the stored
\* translations stay as they were.
StoredTranslations(prev, column, allRows) ==
  IF Len(allRows) = 0 THEN prev
  ELSE SpreadColumn(prev, column, MapValues(RowsBySku(allRows, <<>>)))

\* handleTranslatedFileChange(event, columnName) with the parsed contents
\* `files` of the files chosen; only the input of 'description' is `multiple`.
handleTranslatedFileChange(column, files) ==
  /\ ImportSection
  /\ Len(files) >= 1
  /\ Len(files) > 1 => column = "description"
  /\ \E processed \in {ProcessFiles(files, column, <<>>, 0)} :
     \E allRows \in {SortedRows(files, processed.allRows)} :
       /\ translatedFiles' = StoredTranslations(translatedFiles, column, allRows)
       /\ imported' =
            Some([column |-> column,
                  files |-> files,
                  mapping |-> [f \in 1..Len(files) |->
                                 [r \in 1..Len(files[f]) |->
                                    RowMapping(files[f][r], column)]],
                  standardized |-> [f \in 1..Len(files) |->
                                      StandardizedData(files[f], column)],
                  concatenated |-> processed.allRows,
                  allRows |-> allRows,
                  skippedRows |-> processed.skippedRows,
                  outcome |-> IF Len(allRows) = 0 THEN "noValidRows"
                              ELSE "stored"])
  /\ isLoading' = FALSE
  /\ UNCHANGED <<deFile, productFile, isProcessed, activeTab, mergedData,
                 isMerged, mergedBranches, deInput, productInput, store,
                 pending, sku, normalized, isExtracting, extracting, zipFiles,
                 extractResult, notification, replaceVars>>

\* The sheet whose header row is `layout` and whose rows take their cells
\* from the fields of `records` that the layout names.
Sheet(layout, records) ==
  [r \in 1..Len(records) |->
     [c \in 1..Len(layout) |->
        [key |-> layout[c].header, value |-> records[r][layout[c].field]]]]

\* A translated sheet with the Finnish header of the description column.
TranslatedUploads ==
  {<<Sheet(<<[header |-> <<"r", "o", "w", "_", "i", "n", "d", "e", "x">>, field |-> 1],
             [header |-> <<"S", "K", "U">>, field |-> 2],
             [header |-> <<"k", "u", "v", "a", "u", "s">>, field |-> 3]>>,
           <<<<<<"0">>, <<"X", "1">>, <<"k", "0">>>>>>)>>}

\* The files are chosen for a column while fewer than MaxTranslated columns
\* have translations, or for a column that has them.
importTranslated ==
  \E column \in {columnsToExtract[i] : i \in 1..Len(columnsToExtract)},
     files \in TranslatedUploads :
    /\ Len(translatedFiles) < MaxTranslated \/ MapHas(translatedFiles, column)
    /\ handleTranslatedFileChange(column, files)

(***************************************************************************)
(* replaceColumnsWithTranslations: the translated table.                   *)
(***************************************************************************)
\* JSON.parse(JSON.stringify(row)): a property whose value is undefined is
\* left out by JSON.stringify; the strings are kept.
JsonCopy(row) == [k \in {key \in DOMAIN row : row[key] # Undefined} |-> row[k]]

\* Mutation of UpdatedData: a translated table that is shown is the one
\* copied.
UpdatedData_FromTranslated(data) ==
  LET from == IF translatedMergedData # Null THEN translatedMergedData[1]
              ELSE data
  IN [shared |-> FALSE, rows |-> [i \in 1..Len(from) |-> JsonCopy(from[i])]]

\* Mutation of UpdatedData: the rows of mergedData themselves are updated.
UpdatedData_NoCopy(data) == [shared |-> TRUE, rows |-> data]

\* const updatedData = JSON.parse(JSON.stringify(mergedData)): new objects,
\* which share nothing with mergedData.
UpdatedData(data) ==
  [shared |-> FALSE, rows |-> [i \in 1..Len(data) |-> JsonCopy(data[i])]]

\* if (row.SKU && row[columnName] !== undefined) skuMap.set(row.SKU, row[columnName])
SkuMapSet(skuMap, row) ==
  IF Truthy(row.SKU) /\ row.value # Undefined
  THEN MapSet(skuMap, row.SKU, row.value)
  ELSE skuMap

\* translatedColumnData.forEach(...) on the map skuMap
RECURSIVE SkuMap(_, _)
SkuMap(translatedColumnData, skuMap) ==
  IF translatedColumnData = <<>> THEN skuMap
  ELSE IF Len(translatedColumnData) = 1
  THEN SkuMapSet(skuMap, translatedColumnData[1])
  ELSE LET half == Len(translatedColumnData) \div 2
       IN CHOOSE all \in {SkuMap(SubSeq(translatedColumnData, half + 1,
                                          Len(translatedColumnData)), first) :
                            first \in {SkuMap(SubSeq(translatedColumnData, 1, half),
                                              skuMap)}} : TRUE

\* translationMaps: for each loaded column, in the order of
\* Object.keys(translatedFiles), its map from SKU to translated value
TranslationMaps(files) ==
  [c \in 1..Len(files) |->
     [key |-> files[c].key, value |-> SkuMap(files[c].value, <<>>)]]

\* Mutation of ReplacedValue: the translation is appended to the old value.
ReplacedValue_Appended(old, translation) ==
  IF old = Undefined THEN translation ELSE old \o translation

\* row[columnName] = translationMap.get(row.SKU)
ReplacedValue(old, translation) == translation

\* The row after columnsToReplace.forEach(...): every column whose map has
\* the SKU of the row is assigned.
ReplacedRow(row, translationMaps) ==
  IF ~Truthy(Get(row, "SKU")) THEN row
  ELSE
    LET found == {c \in 1..Len(translationMaps) :
                    MapHas(translationMaps[c].value, row["SKU"])}
    IN [k \in DOMAIN row \cup {translationMaps[c].key : c \in found} |->
          IF \E c \in found : translationMaps[c].key = k
          THEN LET c == CHOOSE c \in found : translationMaps[c].key = k
               IN ReplacedValue(Get(row, k),
                                MapGet(translationMaps[c].value, row["SKU"]))
          ELSE row[k]]

\* updatedData after updatedData.forEach(...)
ApplyTranslations(rows, files) ==
  LET translationMaps == TranslationMaps(files)
  IN [i \in 1..Len(rows) |-> ReplacedRow(rows[i], translationMaps)]

\* replaceColumnsWithTranslations
replaceColumnsWithTranslations ==
  IF mergedData = Null
  THEN /\ replaceResult' = "noMergedData"
       /\ UNCHANGED <<deFile, productFile, isProcessed, isLoading, activeTab,
                      mergedData, isMerged, mergedBranches, deInput,
                      productInput, store, pending, sku, normalized,
                      isExtracting, extracting, zipFiles, extractResult,
                      notification, translatedFiles, imported,
                      isReplacingColumns, translatedMergedData>>
  ELSE IF Len(translatedFiles) = 0
  THEN /\ replaceResult' = "noTranslations"
       /\ UNCHANGED <<deFile, productFile, isProcessed, isLoading, activeTab,
                      mergedData, isMerged, mergedBranches, deInput,
                      productInput, store, pending, sku, normalized,
                      isExtracting, extracting, zipFiles, extractResult,
                      notification, translatedFiles, imported,
                      isReplacingColumns, translatedMergedData>>
  ELSE /\ \E updated \in {UpdatedData(mergedData[1])} :
          \E updatedData \in {ApplyTranslations(updated.rows, translatedFiles)} :
            /\ translatedMergedData' = Some(updatedData)
            /\ mergedData' = IF updated.shared THEN Some(updatedData)
                             ELSE mergedData
       /\ translatedFiles' = <<>>
       /\ isReplacingColumns' = FALSE
       /\ replaceResult' = "generated"
       /\ UNCHANGED <<deFile, productFile, isProcessed, isLoading, activeTab,
                      isMerged, mergedBranches, deInput, productInput, store,
                      pending, sku, normalized, isExtracting, extracting,
                      zipFiles, extractResult, notification, imported>>

\* The button "Generate Table with Translations" is rendered and enabled.
GenerateButton ==
  /\ ImportSection
  /\ Len(translatedFiles) > 0
  /\ ~isReplacingColumns

\* A click on the button.
generateTable == GenerateButton /\ replaceColumnsWithTranslations

\* clearTranslatedTable, the button of the translated table
clearTranslatedTable ==
  /\ translatedMergedData # Null
  /\ translatedMergedData' = Null
  /\ UNCHANGED <<deFile, productFile, isProcessed, isLoading, activeTab,
                 mergedData, isMerged, mergedBranches, deInput, productInput,
                 store, pending, sku, normalized, isExtracting, extracting,
                 zipFiles, extractResult, notification, translatedFiles,
                 imported, isReplacingColumns, replaceResult>>

Next ==
  \/ handleFileChangeDe
  \/ handleFileChangeProduct
  \/ handleProcessFiles
  \/ mergeFiles
  \/ handleClear
  \/ DbSettle
  \/ extractColumnsMissing
  \/ extractColumnsBegin
  \/ extractColumnsEnd
  \/ importTranslated
  \/ generateTable
  \/ clearTranslatedTable

Spec == Init /\ [][Next]_vars

(***************************************************************************)
(* The join as a function of the two datasets: every pair of parsed files  *)
(* is merged.                                                              *)
(***************************************************************************)
InitJoin ==
  /\ \E deContent \in DeContents, productContent \in ProductContents :
       /\ deFile = Some(FileData("deFile", Some(deContent), Null))
       /\ productFile = Some(FileData("productFile", Some(productContent), Null))
       /\ deInput = Some(deContent)
       /\ productInput = Some(productContent)
  /\ isProcessed = TRUE
  /\ isLoading = FALSE
  /\ activeTab = "de"
  /\ mergedData = Null
  /\ isMerged = FALSE
  /\ mergedBranches = <<>>
  /\ store = EmptyStore
  /\ pending = <<>>
  /\ sku = Undefined
  /\ normalized = Undefined
  /\ InitTranslation

\* Each pair of files is merged once.
mergeOnce == mergedData = Null /\ mergeFiles

NextJoin == mergeOnce \/ DbSettle

SpecJoin == InitJoin /\ [][NextJoin]_vars

(***************************************************************************)
(* normalizeSKU as a function: it is called on every short string over the *)
(* characters it distinguishes, and on the documented examples.            *)
(***************************************************************************)
SkuChars == {" ", "b", "B", "3", "4", "v", "V", "1", "X"}

SkuExamples ==
  {<<"B", "3", "4", "A", "B", "C", "1", "2", "3", "V", "1">>,
   <<"a", "b", "c">>,
   <<"b", "3", "4">>,
   <<"b", "3", "4", "v", "1">>,
   <<" ", " ", "B", "3", "4", "X", "1", "V", "1", " ">>,
   <<"b", "3", "4", " ", "X", "1", " ", "v", "1">>,
   <<"B", "3", "4", "B", "3", "4", "X", "1", "V", "1", "V", "1">>,
   <<"V", "1">>, Empty, Undefined}

SkuInputs == SeqsUpTo(SkuChars, MaxSkuLen) \cup SkuExamples

InitNorm ==
  /\ InitUI
  /\ sku \in SkuInputs
  /\ normalized = Undefined

\* normalized = normalizeSKU(sku)
callNormalizeSKU ==
  /\ normalized = Undefined
  /\ normalized' = normalizeSKU(sku)
  /\ UNCHANGED <<deFile, productFile, isProcessed, isLoading, activeTab,
                 mergedData, isMerged, mergedBranches, deInput, productInput,
                 store, pending, sku, translationVars>>

NextNorm == callNormalizeSKU

SpecNorm == InitNorm /\ [][NextNorm]_vars

(***************************************************************************)
(* extractColumns as a function of the unified set: it is called on        *)
(* unified sets whose lengths lie around the multiples of ROWS_PER_FILE.   *)
(***************************************************************************)
\* The shapes of the rows of a unified set: the three branches of mergeFiles,
\* with and without values for the extracted columns, and an empty SKU.
UnifiedShapes ==
  <<mergedProduct(<<"X", "1">>, De2, Pr2),
    deSoloProduct(<<"Y", "2">>, De3),
    productInfoOnly(<<"Z", "3">>, Pr3),
    deSoloProduct(Empty, De5),
    mergedProduct(<<"X", "1">>, De1, Pr1),
    productInfoOnly(<<"Y", "2">>, Pr4)>>

\* The unified set of n rows that cycles through the shapes from the shape
\* after `shift`; the keys are distinct, the empty key occurring at most once.
UnifiedOf(n, shift) ==
  [i \in 1..n |->
     LET shape == UnifiedShapes[((i - 1 + shift) % Len(UnifiedShapes)) + 1]
     IN IF shape["SKU"] = Empty /\ i <= Len(UnifiedShapes) THEN shape
        ELSE [shape EXCEPT !["SKU"] = <<"K">> \o Digits(i)]]

\* The lengths around the multiples of ROWS_PER_FILE, and 1450.
ExtractLengths ==
  {n \in {q * ROWS_PER_FILE + r :
            q \in 0..MaxChunks, r \in (0 - MaxOffset)..MaxOffset} : n >= 1}
  \cup {1450}

ExtractInputs ==
  {UnifiedOf(n, shift) : n \in ExtractLengths, shift \in 0..(Len(UnifiedShapes) - 1)}

\* A unified set is shown on the tab 'merged'.
InitExtract ==
  /\ deFile = Some(FileData("deFile", Null, Null))
  /\ productFile = Some(FileData("productFile", Null, Null))
  /\ deInput = Null
  /\ productInput = Null
  /\ isProcessed = TRUE
  /\ isLoading = FALSE
  /\ activeTab = "merged"
  /\ mergedData \in {Some(data) : data \in ExtractInputs}
  /\ isMerged = TRUE
  /\ mergedBranches = <<>>
  /\ store = EmptyStore
  /\ pending = <<>>
  /\ sku = Undefined
  /\ normalized = Undefined
  /\ InitTranslation

\* Each unified set is extracted once.
extractMissingOnce == extractResult = "none" /\ extractColumnsMissing

extractBeginOnce == extractResult = "none" /\ zipFiles = Null /\ extractColumnsBegin

NextExtract == extractMissingOnce \/ extractBeginOnce \/ extractColumnsEnd

SpecExtract == InitExtract /\ [][NextExtract]_vars

(***************************************************************************)
(* handleTranslatedFileChange as a function of the column and the files:   *)
(* it is called on sheets with every kind of header row.                   *)
(* A record holds the cells (row index, SKU, translated text, note) that a *)
(* header row lays out in columns.                                         *)
(***************************************************************************)
\* The header row that extractColumns wrote for description.
LayoutExported ==
  <<[header |-> <<"r", "o", "w", "_", "i", "n", "d", "e", "x">>, field |-> 1],
    [header |-> <<"S", "K", "U">>, field |-> 2],
    [header |-> <<"d", "e", "s", "c", "r", "i", "p", "t", "i", "o", "n">>, field |-> 3]>>

\* Headers in other letter cases; the Lithuanian header of description.
LayoutCapitals ==
  <<[header |-> <<"R", "o", "w", "_", "I", "n", "d", "e", "x">>, field |-> 1],
    [header |-> <<"S", "k", "u">>, field |-> 2],
    [header |-> <<"A", "P", "R", "A", "U+0160", "Y", "M", "A", "S">>, field |-> 3]>>

\* The named columns in the reverse order; the Finnish header.
LayoutReordered ==
  <<[header |-> <<"k", "u", "v", "a", "u", "s">>, field |-> 3],
    [header |-> <<"S", "k", "u">>, field |-> 2],
    [header |-> <<"R", "O", "W", "_", "I", "N", "D", "E", "X">>, field |-> 1]>>

\* Headers that match no name.
LayoutUnknown ==
  <<[header |-> <<"i", "d", "x">>, field |-> 1],
    [header |-> <<"c", "o", "d", "e">>, field |-> 2],
    [header |-> <<"t", "e", "x", "t">>, field |-> 3]>>

\* The Swedish header of description after a column of notes.
LayoutSwedish ==
  <<[header |-> <<"r", "o", "w", "_", "i", "n", "d", "e", "x">>, field |-> 1],
    [header |-> <<"S", "K", "U">>, field |-> 2],
    [header |-> <<"n", "o", "t", "e">>, field |-> 4],
    [header |-> <<"B", "e", "s", "k", "r", "i", "v", "n", "i", "n", "g">>, field |-> 3]>>

\* The exported column kept before the translated one.
LayoutBoth ==
  <<[header |-> <<"r", "o", "w", "_", "i", "n", "d", "e", "x">>, field |-> 1],
    [header |-> <<"S", "K", "U">>, field |-> 2],
    [header |-> <<"d", "e", "s", "c", "r", "i", "p", "t", "i", "o", "n">>, field |-> 4],
    [header |-> <<"k", "u", "v", "a", "u", "s">>, field |-> 3]>>

\* The translated column before the exported one.
LayoutBothVariantFirst ==
  <<[header |-> <<"r", "o", "w", "_", "i", "n", "d", "e", "x">>, field |-> 1],
    [header |-> <<"S", "K", "U">>, field |-> 2],
    [header |-> <<"k", "u", "v", "a", "u", "s">>, field |-> 3],
    [header |-> <<"d", "e", "s", "c", "r", "i", "p", "t", "i", "o", "n">>, field |-> 4]>>

\* A sheet without a third column.
LayoutTwoFields ==
  <<[header |-> <<"r", "o", "w", "_", "i", "n", "d", "e", "x">>, field |-> 1],
    [header |-> <<"S", "K", "U">>, field |-> 2]>>

\* A sheet with the translated column only.
LayoutValueOnly ==
  <<[header |-> <<"b", "e", "s", "k", "r", "i", "v", "e", "l", "s", "e">>, field |-> 3]>>

\* The header of a translated Title after a column of notes.
LayoutTitle ==
  <<[header |-> <<"r", "o", "w", "_", "i", "n", "d", "e", "x">>, field |-> 1],
    [header |-> <<"S", "K", "U">>, field |-> 2],
    [header |-> <<"n", "o", "t", "e">>, field |-> 4],
    [header |-> <<"T", "i", "t", "e", "l">>, field |-> 3]>>

\* Records out of order, one without a number and one without a SKU.
RecordsA ==
  <<<<<<"0">>, <<"K", "1">>, <<"a", "0">>, <<"n", "0">>>>,
    <<<<"2">>, <<"K", "2">>, <<"a", "2">>, <<"n", "2">>>>,
    <<<<"x">>, <<"K", "3">>, <<"a", "x">>, <<"n", "x">>>>,
    <<<<"1">>, Empty, <<"a", "1">>, <<"n", "1">>>>>>

\* Records that repeat keys and indices of RecordsA; one has no text.
RecordsB ==
  <<<<<<"2">>, <<"K", "1">>, <<"b", "2">>, <<"m", "2">>>>,
    <<<<"y">>, <<"K", "4">>, <<"b", "y">>, <<"m", "y">>>>,
    <<<<"1">>, <<"K", "5">>, Empty, <<"m", "1">>>>,
    <<<<" ", "1", "0", "a">>, <<"K", "3">>, <<"b", "1", "0">>, <<"m", "3">>>>,
    <<<<"-", "1">>, <<"K", "2">>, <<"b", "n">>, <<"m", "4">>>>>>

\* Records with other keys, one of them twice.
RecordsC ==
  <<<<<<"0">>, <<"K", "6">>, <<"c", "0">>, <<"o", "0">>>>,
    <<<<"1">>, <<"K", "7">>, <<"c", "1">>, <<"o", "1">>>>,
    <<<<"2">>, <<"K", "6">>, <<"c", "2">>, <<"o", "2">>>>>>

FilePool ==
  {Sheet(layout, records) :
     layout \in {LayoutExported, LayoutReordered, LayoutUnknown},
     records \in {RecordsA, RecordsB, RecordsC}}
  \cup {Sheet(layout, RecordsA) :
          layout \in {LayoutCapitals, LayoutSwedish, LayoutBoth,
                      LayoutBothVariantFirst, LayoutTwoFields,
                      LayoutValueOnly, LayoutTitle}}

\* The selections of one to MaxFiles files.
FileSelections == UNION {[1..k -> FilePool] : k \in 1..MaxFiles}

\* A unified set is shown and no translation has been imported.
InitImport ==
  /\ deFile = Some(FileData("deFile", Null, Null))
  /\ productFile = Some(FileData("productFile", Null, Null))
  /\ deInput = Null
  /\ productInput = Null
  /\ isProcessed = TRUE
  /\ isLoading = FALSE
  /\ activeTab = "merged"
  /\ mergedData = Some(UnifiedOf(3, 0))
  /\ isMerged = TRUE
  /\ mergedBranches = <<>>
  /\ store = EmptyStore
  /\ pending = <<>>
  /\ sku = Undefined
  /\ normalized = Undefined
  /\ InitTranslation

\* Each selection is imported once, for each column that accepts it.
importOnce ==
  /\ imported = Null
  /\ \E column \in {columnsToExtract[i] : i \in 1..Len(columnsToExtract)},
        files \in FileSelections :
       handleTranslatedFileChange(column, files)

NextImport == importOnce

SpecImport == InitImport /\ [][NextImport]_vars

(***************************************************************************)
(* Vocabulary of the properties of the join.                               *)
(***************************************************************************)
\* The datasets that were merged and the unified set, once mergeFiles has run.
Merged == mergedData # Null /\ HasContent(deFile) /\ HasContent(productFile)

deData == deFile[1].content[1]

productData == productFile[1].content[1]

unified == mergedData[1]

\* The positions of a dataset whose record has a non-empty SKU of key k.
PositionsOf(data, k) ==
  {i \in 1..Len(data) :
     Truthy(Get(data[i], "SKU")) /\ normalizeSKU(Get(data[i], "SKU")) = k}

\* The keys of a dataset: taken from the records with a non-empty SKU.
KeySet(data) ==
  {normalizeSKU(Get(data[i], "SKU")) :
     i \in {j \in 1..Len(data) : Truthy(Get(data[j], "SKU"))}}

Min(S) == CHOOSE x \in S : \A y \in S : x <= y

Max(S) == CHOOSE x \in S : \A y \in S : x >= y

\* The last, and the position of the first, record of key k in a dataset.
LastRecord(data, k) == data[Max(PositionsOf(data, k))]

FirstPosition(data, k) == Min(PositionsOf(data, k))

RowsOfBranch(b) == {i \in 1..Len(unified) : mergedBranches[i] = b}

(***************************************************************************)
(* C1: the unified set holds exactly one record for each normalized key of *)
(* the union of the two key sets and no other record; a key is emitted by  *)
(* the both-present branch iff it is in both key sets, by the primary-only *)
(* branch iff it is only in the primary key set, by the secondary-only     *)
(* branch iff it is only in the secondary key set; for disjoint key sets   *)
(* the size of the output is the sum of the sizes of the two key sets.     *)
(***************************************************************************)
JoinEmitsEachKeyOnce ==
  Merged =>
    LET dk == KeySet(deData)
        pk == KeySet(productData)
    IN /\ \A k \in dk \cup pk :
            Cardinality({i \in 1..Len(unified) : unified[i]["SKU"] = k}) = 1
       /\ \A i \in 1..Len(unified) :
            LET k == unified[i]["SKU"]
            IN /\ k \in dk \cup pk
               /\ mergedBranches[i] = "common" <=> k \in dk \cap pk
               /\ mergedBranches[i] = "deSolo" <=> k \in dk \ pk
               /\ mergedBranches[i] = "productInfoOnly" <=> k \in pk \ dk
       /\ dk \cap pk = {} => Len(unified) = Cardinality(dk) + Cardinality(pk)

\* A merge that took each of the three branches, from datasets that also
\* hold a record without SKU.
JoinEmitsEachKeyOnceWitness ==
  /\ Merged
  /\ RowsOfBranch("common") # {}
  /\ RowsOfBranch("deSolo") # {}
  /\ RowsOfBranch("productInfoOnly") # {}
  /\ \E i \in 1..Len(deData) : ~Truthy(Get(deData[i], "SKU"))

(***************************************************************************)
(* C2: when several records of one dataset share a normalized key, the     *)
(* unified record of that key is composed from the last of them in dataset *)
(* order.                                                                  *)
(***************************************************************************)
LastDuplicateWins ==
  Merged =>
    \A i \in 1..Len(unified) :
      LET k == unified[i]["SKU"]
      IN unified[i] =
           CASE mergedBranches[i] = "common" ->
                  mergedProduct(k, LastRecord(deData, k), LastRecord(productData, k))
             [] mergedBranches[i] = "deSolo" ->
                  deSoloProduct(k, LastRecord(deData, k))
             [] OTHER ->
                  productInfoOnly(k, LastRecord(productData, k))

\* A merge of a key that both datasets hold twice, in different records.
LastDuplicateWinsWitness ==
  /\ Merged
  /\ \E k \in KeySet(deData) \cap KeySet(productData) :
       /\ \E i, j \in PositionsOf(deData, k) : i < j /\ deData[i] # deData[j]
       /\ \E i, j \in PositionsOf(productData, k) :
            i < j /\ productData[i] # productData[j]

Stripped(s) ==
  LET solid == {i \in 1..Len(s) : ~IsSpace(s[i])}
  IN IF solid = {} THEN Empty ELSE SubSeq(s, Min(solid), Max(solid))

EndsWith(s, q) == Len(q) <= Len(s) /\ SubSeq(s, Len(s) - Len(q) + 1, Len(s)) = q

PrefixSpellings == {[i \in 1..3 |-> x[i]] : x \in {"B", "b"} \X {"3"} \X {"4"}}

SuffixSpellings == {[i \in 1..2 |-> x[i]] : x \in {"V", "v"} \X {"1"}}

NormalizedAsSpecified(raw) ==
  LET t == Stripped(raw)
      a == IF \E q \in PrefixSpellings : StartsWith(t, q)
           THEN SubSeq(t, 4, Len(t)) ELSE t
      b == IF \E q \in SuffixSpellings : EndsWith(a, q)
           THEN SubSeq(a, 1, Len(a) - 2) ELSE a
  IN Stripped(b)

IsString(v) == v # Undefined /\ \A i \in 1..Len(v) : v[i] \in STRING

NormalizeSkuContract ==
  normalized # Undefined =>
    /\ IsString(normalized)
    /\ normalized = IF sku \in {Empty, Undefined} THEN Empty
                    ELSE NormalizedAsSpecified(sku)
    /\ sku = <<"B", "3", "4", "A", "B", "C", "1", "2", "3", "V", "1">> => normalized = <<"A", "B", "C", "1", "2", "3">>
    /\ sku = <<"a", "b", "c">> => normalized = <<"a", "b", "c">>
    /\ sku = Empty => normalized = Empty
    /\ sku = <<"b", "3", "4">> => normalized = Empty

\* The call normalizeSKU('B34ABC123V1') has returned 'ABC123'.
NormalizeSkuContractWitness ==
  /\ sku = <<"B", "3", "4", "A", "B", "C", "1", "2", "3", "V", "1">>
  /\ normalized = <<"A", "B", "C", "1", "2", "3">>

(***************************************************************************)
(* C5: a both-present record takes Category, Material, Brand, the sizes,   *)
(* the weights, the volume and Color from the secondary record, Price and  *)
(* Stock from the primary record, Subcategory from the primary record's    *)
(* Category, SKU is the normalized key, and image1..image12 come from the  *)
(* primary record only, for the positions that are non-empty there.        *)
(***************************************************************************)
BothPresentFieldSources ==
  Merged =>
    \A i \in RowsOfBranch("common") :
      LET row == unified[i]
          d == LastRecord(deData, row["SKU"])
          p == LastRecord(productData, row["SKU"])
      IN /\ row["SKU"] = normalizeSKU(Get(d, "SKU"))
         /\ row["SKU"] = normalizeSKU(Get(p, "SKU"))
         /\ row["Category"] = Get(p, "Category")
         /\ row["Material"] = Get(p, "Material")
         /\ row["Brand"] = Get(p, "Brand")
         /\ row["Product size"] = Get(p, "Product size/cm")
         /\ row["Package size Length"] = Get(p, "Package size/cm L")
         /\ row["Package size Width"] = Get(p, "Package size/cm W")
         /\ row["Package size Height"] = Get(p, "Package size/cm H")
         /\ row["Net weight"] = Get(p, "Net weight/kg")
         /\ row["Gross weight"] = Get(p, "Gross weight/kg")
         /\ row["Volume/CBM"] = Get(p, "Volume/CBM")
         /\ row["Color"] = Get(p, "Color")
         /\ row["Price"] = Get(d, "Price")
         /\ row["Stock"] = Get(d, "Stock")
         /\ row["Subcategory"] = Get(d, "Category")
         /\ \A n \in 1..12 :
              /\ ImageKey(n) \in DOMAIN row <=> Truthy(Get(d, ImageKey(n)))
              /\ ImageKey(n) \in DOMAIN row => row[ImageKey(n)] = Get(d, ImageKey(n))

\* A both-present record whose two sources disagree on Category and on an
\* image, and whose primary source has an empty image.
BothPresentFieldSourcesWitness ==
  /\ Merged
  /\ \E i \in RowsOfBranch("common") :
       LET d == LastRecord(deData, unified[i]["SKU"])
           p == LastRecord(productData, unified[i]["SKU"])
       IN /\ Truthy(Get(d, "Category")) /\ Truthy(Get(p, "Category"))
          /\ Get(d, "Category") # Get(p, "Category")
          /\ \E n \in 1..12 :
               /\ Truthy(Get(d, ImageKey(n))) /\ Truthy(Get(p, ImageKey(n)))
               /\ Get(d, ImageKey(n)) # Get(p, ImageKey(n))
          /\ \E n \in 1..12 : Get(d, ImageKey(n)) = Empty

(***************************************************************************)
(* C6: the Title of a both-present record, also when the secondary record  *)
(* has no Brand, is the secondary Name without the secondary Brand when    *)
(* the Name starts with it, and then without the first occurrence of the   *)
(* raw identifier (the primary record's raw SKU, else the secondary's)     *)
(* whenever what is left contains it.                                      *)
(***************************************************************************)
TitleAsSpecified(name, brand, raw) ==
  LET title == OrElse(name, Empty)
      noBrand == IF Truthy(brand) /\ StartsWith(title, brand)
                 THEN Trim(Substring(title, Len(brand)))
                 ELSE title
  IN IF Truthy(raw) /\ Includes(noBrand, raw)
     THEN Trim(RemoveFirst(noBrand, raw))
     ELSE noBrand

BothPresentTitleStripsBrandThenSku ==
  Merged =>
    \A i \in RowsOfBranch("common") :
      LET d == LastRecord(deData, unified[i]["SKU"])
          p == LastRecord(productData, unified[i]["SKU"])
      IN unified[i]["Title"] =
           TitleAsSpecified(Get(p, "Name"), Get(p, "Brand"),
                            OrElse(Get(d, "SKU"), Get(p, "SKU")))

(***************************************************************************)
(* C7: joining [{SKU:'B34X1V1', Price:10, Stock:5}] with [{SKU:'X1',       *)
(* Name:'Acme X1 Widget', Brand:'Acme', Category:'Widgets',                *)
(* 'Description 1':'d1'}] yields one both-present record whose Title       *)
(* contains neither 'Acme' nor 'X1' and whose description is 'd1'; and the *)
(* Title of a both-present record does not contain the item's identifier   *)
(* when the secondary Name contained it.                                   *)
(***************************************************************************)
BothPresentTitleExcludesIdentifier ==
  Merged =>
    /\ deData = <<De1>> /\ productData = <<Pr1>> =>
         /\ Len(unified) = 1
         /\ mergedBranches[1] = "common"
         /\ ~Includes(unified[1]["Title"], <<"A", "c", "m", "e">>)
         /\ ~Includes(unified[1]["Title"], <<"X", "1">>)
         /\ unified[1]["description"] = <<"d", "1">>
    /\ \A i \in RowsOfBranch("common") :
         LET p == LastRecord(productData, unified[i]["SKU"])
         IN Truthy(Get(p, "Name")) /\ Includes(Get(p, "Name"), unified[i]["SKU"])
              => ~Includes(unified[i]["Title"], unified[i]["SKU"])

(***************************************************************************)
(* C8: the description of a both-present record is the non-empty values of *)
(* the secondary record's 'Description 1'..'Description 5' in numeric      *)
(* order, followed by the primary record's 'Description 1' if non-empty,   *)
(* joined by a blank line; empty or absent segments contribute nothing (no *)
(* leading, trailing or doubled separator), and it is '' when all are      *)
(* empty.                                                                  *)
(***************************************************************************)
\* The parts separated by blank lines, built from the last part backwards.
RECURSIVE BlankLineSeparated(_)
BlankLineSeparated(parts) ==
  IF parts = <<>> THEN Empty
  ELSE IF Len(parts) = 1 THEN parts[1]
  ELSE BlankLineSeparated(SubSeq(parts, 1, Len(parts) - 1))
         \o <<"\n", "\n">> \o parts[Len(parts)]

NonEmptyOf(values) == SelectSeq(values, Truthy)

BothPresentDescription ==
  Merged =>
    \A i \in RowsOfBranch("common") :
      LET d == LastRecord(deData, unified[i]["SKU"])
          p == LastRecord(productData, unified[i]["SKU"])
          segments == NonEmptyOf([n \in 1..5 |-> Get(p, DescKey(n))]
                                 \o <<Get(d, "Description 1")>>)
          description == unified[i]["description"]
      IN /\ description = BlankLineSeparated(segments)
         /\ segments = <<>> => description = Empty
         /\ description # Empty =>
              /\ description[1] # "\n"
              /\ description[Len(description)] # "\n"
              /\ ~Includes(description, <<"\n", "\n", "\n">>)

\* One both-present record made of two secondary segments and the primary
\* one, an empty secondary segment being skipped, and one both-present record
\* without any segment.
BothPresentDescriptionWitness ==
  /\ Merged
  /\ \E i \in RowsOfBranch("common") :
       unified[i]["description"] = <<"d", "2", "\n", "\n", "d", "5", "\n", "\n", "p", "1">>
  /\ \E i \in RowsOfBranch("common") : unified[i]["description"] = Empty

(***************************************************************************)
(* C9 as stated: a primary-only record carries SKU (the normalized key)    *)
(* and Brand, Category, Title, Price and Stock from the primary record,    *)
(* each being '' when absent there; description is the primary record's    *)
(* 'Description 1' or ''; image1..image12 are carried from the primary     *)
(* record for the non-empty positions.                                     *)
(***************************************************************************)
ImagesCarriedFrom(row, source) ==
  \A n \in 1..12 :
    /\ ImageKey(n) \in DOMAIN row <=> Truthy(Get(source, ImageKey(n)))
    /\ ImageKey(n) \in DOMAIN row => row[ImageKey(n)] = Get(source, ImageKey(n))

\* The value of a column, '' when the record lacks it.
BlankDefaulted(record, column) ==
  IF column \in DOMAIN record THEN record[column] ELSE Empty

PrimaryOnlyAllBlankDefaulted ==
  Merged =>
    \A i \in RowsOfBranch("deSolo") :
      LET row == unified[i]
          d == LastRecord(deData, row["SKU"])
      IN /\ row["SKU"] = normalizeSKU(Get(d, "SKU"))
         /\ \A c \in {"Brand", "Category", "Title", "Price", "Stock"} :
              row[c] = BlankDefaulted(d, c)
         /\ row["description"] = BlankDefaulted(d, "Description 1")
         /\ ImagesCarriedFrom(row, d)

(***************************************************************************)
(* C9 as amended: a primary-only record carries SKU (the normalized key);  *)
(* Brand and Title from the primary record, each '' when absent there;     *)
(* Category, Price and Stock as the primary record has them, undefined     *)
(* (not '') when absent there; description is the primary record's         *)
(* 'Description 1' or ''; image1..image12 are carried from the primary     *)
(* record for the non-empty positions.                                     *)
(***************************************************************************)
PrimaryOnlyFields ==
  Merged =>
    \A i \in RowsOfBranch("deSolo") :
      LET row == unified[i]
          d == LastRecord(deData, row["SKU"])
      IN /\ row["SKU"] = normalizeSKU(Get(d, "SKU"))
         /\ \A c \in {"Brand", "Title"} : row[c] = BlankDefaulted(d, c)
         /\ \A c \in {"Category", "Price", "Stock"} :
              row[c] = IF c \in DOMAIN d THEN d[c] ELSE Undefined
         /\ row["description"] = BlankDefaulted(d, "Description 1")
         /\ ImagesCarriedFrom(row, d)

\* A primary-only record from a record without Brand, Category, Price and
\* Stock that has an image, and one from a record without Title.
PrimaryOnlyFieldsWitness ==
  /\ Merged
  /\ \E i \in RowsOfBranch("deSolo") :
       LET d == LastRecord(deData, unified[i]["SKU"])
       IN /\ {"Brand", "Category", "Price", "Stock"} \cap DOMAIN d = {}
          /\ unified[i]["Brand"] = Empty
          /\ unified[i]["Category"] = Undefined
          /\ DOMAIN unified[i] \cap ImageKeys # {}
  /\ \E i \in RowsOfBranch("deSolo") :
       /\ "Title" \notin DOMAIN LastRecord(deData, unified[i]["SKU"])
       /\ unified[i]["Title"] = Empty

Extracted == extractResult = "downloaded" /\ zipFiles # Null

\* The batches written for a column, in the order they were written.
BatchesOf(column) == SelectSeq(zipFiles[1], LAMBDA f : f.column = column)

\* The value of a field of a row, '' when the row lacks the field or holds
\* no text in it.
ValueOrBlank(row, key) ==
  IF key \in DOMAIN row /\ row[key] # Undefined /\ row[key] # Empty
  THEN row[key] ELSE Empty

\* The least k such that k chunks of `size` rows hold n rows.
ChunksNeeded(n, size) == CHOOSE k \in 0..n : k * size >= n /\ (k - 1) * size < n

\* The rows of a sequence of batches, one batch after the other.
RECURSIVE RowsOfBatches(_)
RowsOfBatches(batches) ==
  IF batches = <<>> THEN <<>>
  ELSE Head(batches).rows \o RowsOfBatches(Tail(batches))

(***************************************************************************)
(* C11: when one of Subcategory, Category, Title, description is absent    *)
(* from the fields of the first unified record, extractColumns reports a   *)
(* failure to the caller, produces no batch, leaves isExtracting false and *)
(* changes no other state.                                                 *)
(***************************************************************************)
MissingColumnReported ==
  [][(extractResult # "missingColumns" /\ extractResult' = "missingColumns")
       => /\ notification' # Null
          /\ zipFiles' = zipFiles
          /\ isExtracting' = FALSE
          /\ UNCHANGED <<mergedData, translatedFiles, isLoading, activeTab>>]_vars

(***************************************************************************)
(* C12: for each of Subcategory, Category and Title a successful           *)
(* extraction over n rows writes exactly one batch of exactly n rows in    *)
(* the original order, whose row i (0-based) is {row_index: i, SKU: the    *)
(* row's SKU or '', column: the row's value or ''}; a row without the      *)
(* column or the SKU is written with ''.                                   *)
(***************************************************************************)
OneBatchPerShortColumn ==
  Extracted =>
    \A column \in {"Subcategory", "Category", "Title"} :
      LET data == mergedData[1]
          batches == BatchesOf(column)
      IN /\ Len(batches) = 1
         /\ Len(batches[1].rows) = Len(data)
         /\ \A i \in 1..Len(data) :
              /\ batches[1].rows[i].row_index = i - 1
              /\ batches[1].rows[i].SKU = ValueOrBlank(data[i], "SKU")
              /\ batches[1].rows[i].value = ValueOrBlank(data[i], column)

\* An extraction over several rows, one of which lacks the column
\* Subcategory, one of which has no Category and one of which has no SKU.
OneBatchPerShortColumnWitness ==
  /\ Extracted
  /\ Len(mergedData[1]) > 1
  /\ \E i \in 1..Len(mergedData[1]) : "Subcategory" \notin DOMAIN mergedData[1][i]
  /\ \E i \in 1..Len(mergedData[1]) : mergedData[1][i]["Category"] = Undefined
  /\ \E i \in 1..Len(mergedData[1]) : mergedData[1][i]["SKU"] = Empty
  /\ \E i \in 1..Len(mergedData[1]) : BatchesOf("Title")[1].rows[i].value # Empty

(***************************************************************************)
(* C13: for the description column over n >= 1 rows the extraction writes  *)
(* exactly ceil(n/600) batches, which are consecutive slices of the        *)
(* unified set in the original order; every batch but the last holds 600   *)
(* rows and the last holds n - 600*(ceil(n/600)-1) rows, never zero; for   *)
(* n = 1450 the sizes are 600, 600, 250.                                   *)
(***************************************************************************)
DescriptionChunked ==
  Extracted =>
    LET data == mergedData[1]
        n == Len(data)
        batches == BatchesOf("description")
        K == ChunksNeeded(n, 600)
    IN /\ Len(batches) = K
       /\ \A k \in 1..(K - 1) : Len(batches[k].rows) = 600
       /\ Len(batches[K].rows) = n - 600 * (K - 1)
       /\ Len(batches[K].rows) > 0
       /\ \A k \in 1..K :
            /\ batches[k].chunk = k
            /\ batches[k].of = K
            /\ \A l \in 1..Len(batches[k].rows) :
                 LET row == data[600 * (k - 1) + l]
                 IN /\ batches[k].rows[l].SKU = ValueOrBlank(row, "SKU")
                    /\ batches[k].rows[l].value = ValueOrBlank(row, "description")
       /\ n = 1450 =>
            [k \in 1..Len(batches) |-> Len(batches[k].rows)] = <<600, 600, 250>>

\* The extraction of 1450 rows, and one whose last batch is full.
DescriptionChunkedWitness ==
  /\ Extracted
  /\ Len(mergedData[1]) = 1450
  /\ Len(BatchesOf("description")) = 3
  /\ \E row \in {BatchesOf("description")[3].rows[250]} : row.value # Empty

(***************************************************************************)
(* C14: in every description batch the row_index of a row is its 0-based   *)
(* position in the whole unified set; over the batches in order the        *)
(* row_index values are 0..n-1, each once, so the batches concatenated     *)
(* equal the one batch that would be written without chunking.             *)
(***************************************************************************)
DescriptionRowIndexGlobal ==
  Extracted =>
    LET data == mergedData[1]
        all == RowsOfBatches(BatchesOf("description"))
    IN /\ Len(all) = Len(data)
       /\ \A i \in 1..Len(all) : all[i].row_index = i - 1
       /\ all = [i \in 1..Len(data) |->
                   [row_index |-> i - 1,
                    SKU |-> ValueOrBlank(data[i], "SKU"),
                    value |-> ValueOrBlank(data[i], "description")]]

\* An extraction whose second description batch starts at row_index 600.
DescriptionRowIndexGlobalWitness ==
  /\ Extracted
  /\ Len(BatchesOf("description")) >= 2
  /\ BatchesOf("description")[2].rows[1].row_index = 600
  /\ BatchesOf("description")[2].rows[1].SKU = <<"K", "6", "0", "1">>

(***************************************************************************)
(* Vocabulary of the properties of the import.                             *)
(***************************************************************************)
\* An import has run, and it stored rows; SpecImport runs one import, so
\* translatedFiles holds what that import stored.
ImportDone == imported # Null

ImportStored == imported # Null /\ imported[1].outcome = "stored"

StoredRows == MapGet(translatedFiles, imported[1].column)

\* The non-empty identifiers of a sequence of standardized rows.
IdsOf(rows) == {rows[i].SKU : i \in 1..Len(rows)} \ {Empty}

SameIgnoringCase(a, b) == toLowerCase(a) = toLowerCase(b)

\* A header is one of the translated variants, or the canonical name, of a column.
IsVariantHeader(k, column) ==
  \E i \in 1..Len(columnTranslations(column)) :
    SameIgnoringCase(k, columnTranslations(column)[i])

IsCanonicalHeader(k, column) == SameIgnoringCase(k, ColumnName(column))

\* The n-th field of a header row, undefined when the row is shorter.
FieldAt(keys, n) == IF n <= Len(keys) THEN keys[n] ELSE Undefined

\* The first header equal to `name` whatever the case, else the n-th field.
NamedOrField(keys, name, n) ==
  LET named == {i \in 1..Len(keys) : SameIgnoringCase(keys[i], name)}
  IN IF named # {} THEN keys[Min(named)] ELSE FieldAt(keys, n)

\* The value of the cell under a header, undefined when there is none.
CellOf(row, key) ==
  LET cells == {i \in 1..Len(row) : row[i].key = key}
  IN IF cells = {} THEN Undefined ELSE row[Min(cells)].value

\* The k-th smallest element of a set of numbers.
NthOf(S, k) == CHOOSE x \in S : Cardinality({y \in S : y < x}) = k - 1

\* The rows of the f-th file whose value, under the header found, is defined.
KeptPositions(f) ==
  {r \in 1..Len(imported[1].files[f]) :
     CellOf(imported[1].files[f][r], imported[1].mapping[f][r].foundDataKey)
       # Undefined}

\* The rows of a sequence of sequences of rows, one sequence after the other.
RECURSIVE Concatenated(_)
Concatenated(seqs) ==
  IF seqs = <<>> THEN <<>> ELSE Head(seqs) \o Concatenated(Tail(seqs))

\* Row i comes before row j when its numeric row_index is smaller, a
\* row_index that is not numeric counting as greater than every number, or
\* when neither is smaller and i is the earlier position.
IndexSmaller(a, b) ==
  /\ ~parseInt(a.row_index).nan
  /\ parseInt(b.row_index).nan \/ parseInt(a.row_index).n < parseInt(b.row_index).n

ComesBefore(rows, i, j) ==
  \/ IndexSmaller(rows[i], rows[j])
  \/ ~IndexSmaller(rows[j], rows[i]) /\ i < j

(***************************************************************************)
(* C15: one import for a column stores exactly one row for each distinct   *)
(* non-empty identifier among the kept rows, namely the last row with that *)
(* identifier in the (sorted, when several files) concatenated sequence;   *)
(* kept rows with an empty identifier are not stored.  For two files with  *)
(* disjoint identifiers the number of stored rows is the sum of the        *)
(* numbers of their identifiers.                                           *)
(***************************************************************************)
StoredLastRowPerIdentifier ==
  ImportStored =>
    LET rows == imported[1].allRows
        stored == StoredRows
        perFile == imported[1].standardized
    IN /\ Len(stored) = Cardinality(IdsOf(rows))
       /\ {stored[j].SKU : j \in 1..Len(stored)} = IdsOf(rows)
       /\ \A j \in 1..Len(stored) :
            stored[j] = rows[Max({i \in 1..Len(rows) : rows[i].SKU = stored[j].SKU})]
       /\ (Len(perFile) = 2 /\ IdsOf(perFile[1]) \cap IdsOf(perFile[2]) = {})
            => Len(stored) = Cardinality(IdsOf(perFile[1]))
                             + Cardinality(IdsOf(perFile[2]))

\* Two files with disjoint identifiers, one of which has a kept row without
\* identifier and the other an identifier on two different rows: five rows
\* are stored.
StoredLastRowPerIdentifierWitness ==
  /\ ImportStored
  /\ Len(imported[1].files) = 2
  /\ IdsOf(imported[1].standardized[1]) \cap IdsOf(imported[1].standardized[2]) = {}
  /\ \E i \in 1..Len(imported[1].allRows) : imported[1].allRows[i].SKU = Empty
  /\ \E i, j \in 1..Len(imported[1].allRows) :
       /\ i < j
       /\ imported[1].allRows[i].SKU = imported[1].allRows[j].SKU
       /\ imported[1].allRows[i].SKU # Empty
       /\ imported[1].allRows[i].value # imported[1].allRows[j].value
  /\ Len(StoredRows) = 5

(***************************************************************************)
(* C16: for each column the importer takes as value column a header that   *)
(* equals, whatever the case, one of the translated variants listed for    *)
(* the column; this holds for every variant of the list ('aprasymas' with  *)
(* s caron, 'Beskrivning', 'beskrivelse', 'kuvaus' for description) and    *)
(* wherever the header stands in the row.                                  *)
(***************************************************************************)
VariantHeaderSelected ==
  ImportDone =>
    \A f \in 1..Len(imported[1].files) :
      \A r \in 1..Len(imported[1].files[f]) :
        LET m == imported[1].mapping[f][r]
        IN (\E i \in 1..Len(m.availableKeys) :
              IsVariantHeader(m.availableKeys[i], imported[1].column))
             => IsVariantHeader(m.foundDataKey, imported[1].column)

(***************************************************************************)
(* C17: the value column is resolved by a strict chain: a header matching  *)
(* a translated variant if there is one; only if there is none, a header   *)
(* equal to the canonical column name whatever the case; only if there is  *)
(* neither, the 3rd field.  A row with both a canonical header and a       *)
(* variant header yields the variant header, whatever their order.         *)
(***************************************************************************)
ValueColumnFallbackChain ==
  ImportDone =>
    \A f \in 1..Len(imported[1].files) :
      \A r \in 1..Len(imported[1].files[f]) :
        LET m == imported[1].mapping[f][r]
            keys == m.availableKeys
            column == imported[1].column
        IN IF \E i \in 1..Len(keys) : IsVariantHeader(keys[i], column)
           THEN IsVariantHeader(m.foundDataKey, column)
           ELSE IF \E i \in 1..Len(keys) : IsCanonicalHeader(keys[i], column)
                THEN IsCanonicalHeader(m.foundDataKey, column)
                ELSE m.foundDataKey = FieldAt(keys, 3)

(***************************************************************************)
(* C18: for every imported row the row-index column is the header equal to *)
(* 'row_index' whatever the case, else the 1st field; the identifier       *)
(* column is the header equal to 'sku' whatever the case, else the 2nd     *)
(* field; a row with unrecognized headers and three fields is imported     *)
(* with (1st, 2nd, 3rd) as (row_index, SKU, value).                        *)
(***************************************************************************)
IndexAndSkuColumns ==
  ImportDone =>
    \A f \in 1..Len(imported[1].files) :
      LET file == imported[1].files[f]
          column == imported[1].column
          unrecognized ==
            \A r \in 1..Len(file) : \A c \in 1..Len(file[r]) :
              /\ ~SameIgnoringCase(file[r][c].key, <<"r", "o", "w", "_", "i", "n", "d", "e", "x">>)
              /\ ~SameIgnoringCase(file[r][c].key, <<"s", "k", "u">>)
              /\ ~IsVariantHeader(file[r][c].key, column)
              /\ ~IsCanonicalHeader(file[r][c].key, column)
      IN /\ \A r \in 1..Len(file) :
              LET m == imported[1].mapping[f][r]
              IN /\ m.foundRowIndexKey =
                      NamedOrField(m.availableKeys, <<"r", "o", "w", "_", "i", "n", "d", "e", "x">>, 1)
                 /\ m.foundSkuKey = NamedOrField(m.availableKeys, <<"s", "k", "u">>, 2)
         /\ (unrecognized /\ \A r \in 1..Len(file) : Len(file[r]) >= 3)
              => imported[1].standardized[f] =
                   [r \in 1..Len(file) |->
                      [row_index |-> file[r][1].value,
                       SKU |-> file[r][2].value,
                       value |-> file[r][3].value]]

\* An import of a file whose row index is named ROW_INDEX in the 3rd field
\* and whose SKU is named Sku, and of a file with unrecognized headers.
IndexAndSkuColumnsWitness ==
  /\ ImportDone
  /\ Len(imported[1].files) = 2
  /\ imported[1].mapping[1][1].foundRowIndexKey = <<"R", "O", "W", "_", "I", "N", "D", "E", "X">>
  /\ imported[1].mapping[1][1].availableKeys[3] = <<"R", "O", "W", "_", "I", "N", "D", "E", "X">>
  /\ imported[1].mapping[1][1].foundSkuKey = <<"S", "k", "u">>
  /\ imported[1].mapping[2][1].availableKeys = <<<<"i", "d", "x">>, <<"c", "o", "d", "e">>, <<"t", "e", "x", "t">>>>
  /\ Len(imported[1].standardized[2]) = Len(imported[1].files[2])
  /\ imported[1].standardized[2][1].value = <<"a", "0">>

(***************************************************************************)
(* C19: an imported row is dropped if and only if its resolved value is    *)
(* undefined; each drop adds one to the count of skipped rows, raises no   *)
(* error and does not stop the rows and files that follow; a kept row      *)
(* whose row index is undefined gets row_index '0' and a kept row whose    *)
(* identifier is undefined gets SKU ''.                                    *)
(***************************************************************************)
DroppedIffValueUndefined ==
  ImportDone =>
    LET files == imported[1].files
        perFile == imported[1].standardized
        total == Len(Concatenated(files))
    IN /\ \A f \in 1..Len(files) :
            /\ Len(perFile[f]) = Cardinality(KeptPositions(f))
            /\ \A k \in 1..Len(perFile[f]) :
                 LET r == NthOf(KeptPositions(f), k)
                     m == imported[1].mapping[f][r]
                     rowIndex == CellOf(files[f][r], m.foundRowIndexKey)
                     rowSku == CellOf(files[f][r], m.foundSkuKey)
                 IN /\ perFile[f][k].value = CellOf(files[f][r], m.foundDataKey)
                    /\ perFile[f][k].row_index =
                         IF rowIndex = Undefined THEN <<"0">> ELSE rowIndex
                    /\ perFile[f][k].SKU =
                         IF rowSku = Undefined THEN Empty ELSE rowSku
       /\ imported[1].concatenated = Concatenated(perFile)
       /\ imported[1].skippedRows = total - Len(imported[1].concatenated)
       /\ imported[1].concatenated # <<>> => imported[1].outcome = "stored"

\* A file all of whose rows are dropped, followed by a file whose rows are
\* kept with SKU '' because they have no identifier column.
DroppedIffValueUndefinedWitness ==
  /\ ImportDone
  /\ Len(imported[1].files) = 2
  /\ imported[1].standardized[1] = <<>>
  /\ imported[1].skippedRows = Len(imported[1].files[1])
  /\ imported[1].skippedRows > 0
  /\ imported[1].mapping[2][1].foundSkuKey = Undefined
  /\ imported[1].standardized[2] # <<>>
  /\ \A k \in 1..Len(imported[1].standardized[2]) :
       imported[1].standardized[2][k].SKU = Empty
  /\ imported[1].outcome = "stored"

(***************************************************************************)
(* C20: when more than one file is given to an import, the concatenated    *)
(* kept rows are ordered by ascending numeric row_index, the rows whose    *)
(* row_index is not numeric after all the numeric ones, and rows with      *)
(* equal keys (two non-numeric ones too) in their concatenation order;     *)
(* with exactly one file the rows keep the order of the file.              *)
(***************************************************************************)
SortedOnlyForSeveralFiles ==
  ImportDone =>
    LET before == imported[1].concatenated
        after == imported[1].allRows
    IN /\ Len(after) = Len(before)
       /\ Len(imported[1].files) = 1 => after = before
       /\ Len(imported[1].files) > 1 =>
            \A i \in 1..Len(before) :
              after[1 + Cardinality({j \in 1..Len(before) : ComesBefore(before, j, i)})]
                = before[i]

\* Two files whose rows are interleaved by the sort, with two rows without
\* a numeric row_index and two rows with the same row_index.
SortedOnlyForSeveralFilesWitness ==
  /\ ImportDone
  /\ Len(imported[1].files) = 2
  /\ imported[1].allRows # imported[1].concatenated
  /\ \E i, j \in 1..Len(imported[1].allRows) :
       /\ i < j
       /\ parseInt(imported[1].allRows[i].row_index).nan
       /\ parseInt(imported[1].allRows[j].row_index).nan
       /\ imported[1].allRows[i].value = <<"a", "x">>
       /\ imported[1].allRows[j].value = <<"b", "y">>
  /\ \E i \in 1..(Len(imported[1].allRows) - 1) :
       /\ imported[1].allRows[i].row_index = <<"2">>
       /\ imported[1].allRows[i + 1].row_index = <<"2">>
       /\ imported[1].allRows[i].value = <<"a", "2">>
       /\ imported[1].allRows[i + 1].value = <<"b", "2">>
  /\ imported[1].allRows[Len(imported[1].allRows) - 2].row_index
       = <<" ", "1", "0", "a">>

(***************************************************************************)
(* C26: in the unified set every both-present record precedes every        *)
(* primary-only record, and every primary-only record precedes every       *)
(* secondary-only record.                                                  *)
(***************************************************************************)
BranchesInThreeBlocks ==
  Merged =>
    \A i, j \in 1..Len(unified) :
      i < j =>
        /\ mergedBranches[j] = "common" => mergedBranches[i] = "common"
        /\ mergedBranches[i] = "productInfoOnly" => mergedBranches[j] = "productInfoOnly"

\* C26 as amended: the both-present and the primary-only records form one
\* block, in which they follow the order of the first occurrence of their
\* key in the primary dataset whichever of the two they are; the
\* secondary-only records come after that block.
PrimaryBlockThenSecondaryOnly ==
  Merged =>
    \A i, j \in 1..Len(unified) :
      (i < j /\ mergedBranches[j] \in {"common", "deSolo"}) =>
        /\ mergedBranches[i] \in {"common", "deSolo"}
        /\ FirstPosition(deData, unified[i]["SKU"])
             < FirstPosition(deData, unified[j]["SKU"])

\* A primary-only record that precedes a both-present record, which itself
\* precedes a secondary-only record.
PrimaryBlockThenSecondaryOnlyWitness ==
  /\ Merged
  /\ \E i, j, k \in 1..Len(unified) :
       /\ i < j /\ j < k
       /\ mergedBranches[i] = "deSolo"
       /\ mergedBranches[j] = "common"
       /\ mergedBranches[k] = "productInfoOnly"

(***************************************************************************)
(* C27: every record of the unified set has a non-empty SKU: a source      *)
(* record whose SKU is present but normalizes to the empty string ('B34',  *)
(* 'V1', 'b34v1') yields no unified record, like a record whose SKU is     *)
(* missing or empty.                                                       *)
(***************************************************************************)
UnifiedSkuNonEmpty ==
  Merged => \A i \in 1..Len(unified) : unified[i]["SKU"] # Empty

(***************************************************************************)
(* The files and the object store alone: the handlers that change deFile,  *)
(* productFile or mergedData, and the requests they issue.                 *)
(***************************************************************************)
NextStore ==
  \/ handleFileChangeDe
  \/ handleFileChangeProduct
  \/ handleProcessFiles
  \/ mergeFiles
  \/ handleClear
  \/ DbSettle

SpecStore == Init /\ [][NextStore]_vars

(***************************************************************************)
(* C28: after handleClear has run and every pending request to the store   *)
(* has settled, the store holds none of the slots deFile, productFile and  *)
(* mergedData, however the deletes of the clear interleave with a save of  *)
(* updateDB or of mergeFiles that was started before the clear.            *)
(***************************************************************************)
ClearedStoreIsEmpty ==
  (/\ deFile = Null /\ productFile = Null /\ mergedData = Null
   /\ pending = <<>>)
    => store = EmptyStore


(***************************************************************************)
(* The translation workflow on one unified set: extraction, imports for    *)
(* two columns, generation of the translated table and the two clear       *)
(* buttons.                                                                *)
(***************************************************************************)
MaxUnified == 7

\* A column that the rows of one branch lack and a column that some rows
\* hold as undefined.
TranslateColumns == {"Subcategory", "Category"}

\* A sheet for some keys of the unified set, a sheet for other keys and a
\* sheet that has no value column.
TranslateUploads ==
  {<<Sheet(LayoutUnknown, RecordsA)>>,
   <<Sheet(LayoutUnknown, RecordsC)>>,
   <<Sheet(LayoutTwoFields, RecordsA)>>}

InitTranslate ==
  /\ deFile = Some(FileData("deFile", Null, Null))
  /\ productFile = Some(FileData("productFile", Null, Null))
  /\ deInput = Null
  /\ productInput = Null
  /\ isProcessed = TRUE
  /\ isLoading = FALSE
  /\ activeTab = "merged"
  /\ mergedData = Some(UnifiedOf(MaxUnified, 0))
  /\ isMerged = TRUE
  /\ mergedBranches = <<>>
  /\ store = EmptyStore
  /\ pending = <<>>
  /\ sku = Undefined
  /\ normalized = Undefined
  /\ InitTranslation

\* One file is chosen for one of the columns.
importColumn ==
  \E column \in TranslateColumns, files \in TranslateUploads :
    handleTranslatedFileChange(column, files)

NextTranslate ==
  \/ extractColumnsBegin
  \/ extractColumnsEnd
  \/ importColumn
  \/ replaceColumnsWithTranslations
  \/ clearTranslatedTable
  \/ handleClear

SpecTranslate == InitTranslate /\ [][NextTranslate]_vars

(***************************************************************************)
(* Claims about the translation workflow.                                  *)
(***************************************************************************)
\* No file of an import kept a row.
NoRowSurvives(import) ==
  \A f \in 1..Len(import.files) : import.standardized[f] = <<>>

(***************************************************************************)
(* C21: an import whose files keep no row at all ends in the empty-result  *)
(* failure: nothing is stored for its column, the translations stored      *)
(* before, for this column and for every other, are unchanged, and         *)
(* isLoading is false afterwards.                                          *)
(***************************************************************************)
EmptyImportStoresNothing ==
  [][(imported' # Null /\ imported' # imported /\ NoRowSurvives(imported'[1]))
       => /\ imported'[1].outcome = "noValidRows"
          /\ translatedFiles' = translatedFiles
          /\ isLoading' = FALSE]_vars

\* An empty import for a column that has translations, while the other
\* column has translations too.
EmptyImportStoresNothingWitness ==
  /\ imported # Null
  /\ NoRowSurvives(imported[1])
  /\ MapHas(translatedFiles, imported[1].column)
  /\ Len(translatedFiles) = 2
  /\ \A i \in 1..Len(translatedFiles) : translatedFiles[i].value # <<>>
  /\ ~isLoading

\* The stored rows of a column, none when the column has no translations.
RowsOfColumn(files, column) ==
  IF MapHas(files, column) THEN Some(MapGet(files, column)) ELSE Null

(***************************************************************************)
(* C29: an import that stores rows for column c leaves c with rows of that *)
(* invocation alone, one for each non-empty identifier among its kept      *)
(* rows, whatever c held before, and leaves the stored rows of every other *)
(* column as they were.                                                    *)
(***************************************************************************)
ImportReplacesOneColumn ==
  [][(imported' # Null /\ imported' # imported
        /\ imported'[1].outcome = "stored")
       => LET c == imported'[1].column
              allRows == imported'[1].allRows
              rows == MapGet(translatedFiles', c)
          IN /\ MapHas(translatedFiles', c)
             /\ \A i \in 1..Len(rows) :
                  \E j \in 1..Len(allRows) : rows[i] = allRows[j]
             /\ {rows[i].SKU : i \in 1..Len(rows)} = IdsOf(allRows)
             /\ Len(rows) = Cardinality(IdsOf(allRows))
             /\ \A d \in {columnsToExtract[i] : i \in 1..Len(columnsToExtract)} \ {c} :
                  RowsOfColumn(translatedFiles', d) = RowsOfColumn(translatedFiles, d)]_vars

\* The column imported last is the one that was imported first, and the
\* other column has translations for other identifiers.
ImportReplacesOneColumnWitness ==
  /\ imported # Null
  /\ imported[1].outcome = "stored"
  /\ Len(translatedFiles) = 2
  /\ translatedFiles[1].key = imported[1].column
  /\ IdsOf(translatedFiles[1].value) # IdsOf(translatedFiles[2].value)

\* The columns that have translations loaded.
LoadedColumns(files) == {files[c].key : c \in 1..Len(files)}

\* The stored rows of a loaded column that carry the identifier.
RowsWithSku(files, column, id) ==
  {r \in 1..Len(MapGet(files, column)) : MapGet(files, column)[r].SKU = id}

\* A row gets a translation of a column when the column is loaded, the
\* identifier of the row is not empty and a stored row carries it.
HasTranslation(files, column, row) ==
  /\ column \in LoadedColumns(files)
  /\ Truthy(Get(row, "SKU"))
  /\ RowsWithSku(files, column, row["SKU"]) # {}

\* The value a row shows in a column of the translated table.
ExpectedValue(files, column, row) ==
  IF HasTranslation(files, column, row)
  THEN MapGet(files, column)[CHOOSE r \in RowsWithSku(files, column, row["SKU"]) : TRUE].value
  ELSE Get(row, column)

\* The columns of a table and the loaded ones.
ColumnsOf(rows, files) ==
  UNION {DOMAIN rows[i] : i \in 1..Len(rows)} \cup LoadedColumns(files)

\* A step of replaceColumnsWithTranslations that passes its guards.
GenerationStep ==
  /\ mergedData # Null
  /\ translatedFiles # <<>>
  /\ imported' = imported
  /\ \/ translatedFiles' = <<>>
     \/ translatedMergedData' \notin {translatedMergedData, Null}

(***************************************************************************)
(* C30: a run of replaceColumnsWithTranslations that passes its guards     *)
(* computes the translated table from mergedData and the translations      *)
(* loaded at that moment only: each row shows, in each column, its         *)
(* translation when it has one and the value of mergedData otherwise,      *)
(* whatever table was generated before; and it leaves translatedFiles      *)
(* empty.  With mergedData null or no translations loaded, a run changes   *)
(* no state of the application.                                            *)
(***************************************************************************)
GeneratedFromUnifiedOnly ==
  [][/\ GenerationStep =>
          /\ translatedMergedData' # Null
          /\ Len(translatedMergedData'[1]) = Len(mergedData[1])
          /\ \A i \in 1..Len(mergedData[1]) :
               \A k \in ColumnsOf(mergedData[1], translatedFiles) :
                 Get(translatedMergedData'[1][i], k)
                   = ExpectedValue(translatedFiles, k, mergedData[1][i])
          /\ translatedFiles' = <<>>
     /\ (replaceResult' # replaceResult
           /\ (mergedData = Null \/ translatedFiles = <<>>)) =>
          /\ replaceResult' \in {"noMergedData", "noTranslations"}
          /\ UNCHANGED <<deFile, productFile, isProcessed, isLoading,
                         activeTab, mergedData, isMerged, mergedBranches,
                         deInput, productInput, store, pending, sku,
                         normalized, isExtracting, extracting, zipFiles,
                         extractResult, notification, translatedFiles,
                         imported, isReplacingColumns,
                         translatedMergedData>>]_vars

\* A table generated with the first column loaded is shown, and only the
\* other column is loaded now: the next run starts here.
GeneratedFromUnifiedOnlyWitness ==
  /\ mergedData # Null
  /\ translatedMergedData # Null
  /\ replaceResult = "generated"
  /\ LoadedColumns(translatedFiles) = {"Category"}
  /\ \E i \in 1..Len(mergedData[1]) :
       /\ Get(translatedMergedData[1][i], "Subcategory")
            # Get(mergedData[1][i], "Subcategory")
       /\ HasTranslation(translatedFiles, "Category", mergedData[1][i])

\* The row of the translated table for a row of the unified set: its own
\* fields, with the translations it has in the loaded columns.
ExpectedRow(files, row) ==
  [k \in DOMAIN row \cup {c \in LoadedColumns(files) : HasTranslation(files, c, row)} |->
     ExpectedValue(files, k, row)]

(***************************************************************************)
(* C22: replaceColumnsWithTranslations gives one row per unified row in    *)
(* the same order; a row with a non-empty SKU gets, in each loaded column, *)
(* the translated value when its SKU is in the translations of the column  *)
(* and keeps its value otherwise; the rows with an empty SKU and the       *)
(* columns without translations are identical to the input.                *)
(***************************************************************************)
TranslatedRowsIdenticalElsewhere ==
  [][GenerationStep =>
       /\ translatedMergedData' # Null
       /\ Len(translatedMergedData'[1]) = Len(mergedData[1])
       /\ \A i \in 1..Len(mergedData[1]) :
            translatedMergedData'[1][i]
              = ExpectedRow(translatedFiles, mergedData[1][i])]_vars

(***************************************************************************)
(* C23: extraction, translation import and generation of the translated    *)
(* table never modify mergedData: the only step that changes it is the     *)
(* clearing of the files, so until then it is the unified set the merge    *)
(* produced, and the substitutions made in the translated table do not     *)
(* appear in it.                                                           *)
(***************************************************************************)
UnifiedSetNeverModified ==
  [][mergedData' # mergedData
       => mergedData' = Null /\ deFile' = Null /\ productFile' = Null]_vars

\* After an extraction and an import, a translated table that differs from
\* the unified set is shown next to the unified set of the start.
UnifiedSetNeverModifiedWitness ==
  /\ zipFiles # Null
  /\ imported # Null
  /\ translatedMergedData # Null
  /\ mergedData = Some(UnifiedOf(MaxUnified, 0))
  /\ \E i \in 1..MaxUnified :
       Get(translatedMergedData[1][i], "Category")
         # Get(mergedData[1][i], "Category")

\* Translation merge as a function of a unified set and the loaded
\* translations.
Apply(rows, files) == ApplyTranslations(UpdatedData(rows).rows, files)

(***************************************************************************)
(* C24: translation merge is idempotent: applying the loaded translations  *)
(* to the table that a generation has just produced from them gives that   *)
(* table again.                                                            *)
(***************************************************************************)
TranslationMergeIdempotent ==
  [][GenerationStep =>
       /\ translatedMergedData' = Some(Apply(mergedData[1], translatedFiles))
       /\ Apply(translatedMergedData'[1], translatedFiles)
            = translatedMergedData'[1]]_vars

\* A generated table in which a value that was not empty has been replaced.
TranslationMergeIdempotentWitness ==
  /\ mergedData # Null
  /\ translatedMergedData # Null
  /\ replaceResult = "generated"
  /\ \E i \in 1..Len(mergedData[1]) :
       /\ Truthy(Get(mergedData[1][i], "Category"))
       /\ Truthy(Get(translatedMergedData[1][i], "Category"))
       /\ Get(translatedMergedData[1][i], "Category")
            # Get(mergedData[1][i], "Category")

(***************************************************************************)
(* The round trip: the columns of a unified set are extracted, the files   *)
(* of a column are read back as they were written and imported, and the    *)
(* translated table is generated.                                          *)
(***************************************************************************)
MaxRoundTrip == 2

\* Mutation of parseExtractedFile: an empty cell is left out of its row.
parseExtractedFile_NoDefault(file) ==
  [r \in 1..Len(file.rows) |->
     SelectSeq(<<[key |-> <<"r", "o", "w", "_", "i", "n", "d", "e", "x">>,
                  value |-> Digits(file.rows[r].row_index)],
                 [key |-> <<"S", "K", "U">>, value |-> file.rows[r].SKU],
                 [key |-> ColumnName(file.column), value |-> file.rows[r].value]>>,
               LAMBDA cell : cell.value # Empty)]

\* parseExcelFile on a file that extractColumns wrote: the header row is
\* row_index, SKU and the column; with raw: false the number row_index comes
\* back as its decimal string, and with defval: '' an empty cell comes back
\* as ''.
parseExtractedFile(file) ==
  [r \in 1..Len(file.rows) |->
     <<[key |-> <<"r", "o", "w", "_", "i", "n", "d", "e", "x">>,
        value |-> Digits(file.rows[r].row_index)],
       [key |-> <<"S", "K", "U">>, value |-> file.rows[r].SKU],
       [key |-> ColumnName(file.column), value |-> file.rows[r].value]>>]

\* The files of the zip written for a column, in the order of their names.
FilesOfColumn(entries, column) ==
  SelectSeq(entries, LAMBDA file : file.column = column)

\* Unified sets of MaxUnified rows and of one row more than a description
\* file holds, starting with a row of each branch.
RoundTripInputs ==
  {UnifiedOf(n, shift) : n \in {MaxUnified, ROWS_PER_FILE + 1},
                         shift \in 0..(Len(UnifiedShapes) - 1)}

InitRoundTrip ==
  /\ deFile = Some(FileData("deFile", Null, Null))
  /\ productFile = Some(FileData("productFile", Null, Null))
  /\ deInput = Null
  /\ productInput = Null
  /\ isProcessed = TRUE
  /\ isLoading = FALSE
  /\ activeTab = "merged"
  /\ mergedData \in {Some(data) : data \in RoundTripInputs}
  /\ isMerged = TRUE
  /\ mergedBranches = <<>>
  /\ store = EmptyStore
  /\ pending = <<>>
  /\ sku = Undefined
  /\ normalized = Undefined
  /\ InitTranslation

\* All the files written for a column are chosen, unmodified, for that
\* column, while fewer than MaxRoundTrip columns have translations.
importExtracted ==
  /\ zipFiles # Null
  /\ translatedMergedData = Null
  /\ Len(translatedFiles) < MaxRoundTrip
  /\ \E column \in {columnsToExtract[i] : i \in 1..Len(columnsToExtract)} :
       /\ ~MapHas(translatedFiles, column)
       /\ \E files \in {FilesOfColumn(zipFiles[1], column)} :
            handleTranslatedFileChange(
              column, [f \in 1..Len(files) |-> parseExtractedFile(files[f])])

NextRoundTrip ==
  \/ extractMissingOnce
  \/ extractBeginOnce
  \/ extractColumnsEnd
  \/ importExtracted
  \/ generateTable

SpecRoundTrip == InitRoundTrip /\ [][NextRoundTrip]_vars

\* The unified set has more rows than one description file holds.
Chunked == mergedData # Null /\ Len(mergedData[1]) > ROWS_PER_FILE

(***************************************************************************)
(* C25 as stated: after a column is extracted, its unmodified files are    *)
(* imported and the table is generated, every row of the table has, in     *)
(* that column, the value it has in the unified set, the rows lacking the  *)
(* column and the rows with an empty SKU included.                         *)
(***************************************************************************)
RoundTripReproducesValues ==
  [][GenerationStep =>
       \A c \in LoadedColumns(translatedFiles) :
         \A i \in 1..Len(mergedData[1]) :
           Get(translatedMergedData'[1][i], c) = Get(mergedData[1][i], c)]_vars

(***************************************************************************)
(* C25 amended: when the extraction writes its files, the round trip of a  *)
(* column gives every row with a non-empty SKU the value it has in the     *)
(* unified set when that value is a non-empty string, and '' when the row  *)
(* lacks the column or holds it as undefined or ''; a row with an empty    *)
(* SKU keeps what it has in the unified set, undefined included.           *)
(***************************************************************************)
RoundTripValueOrBlank ==
  [][GenerationStep =>
       /\ translatedMergedData' # Null
       /\ Len(translatedMergedData'[1]) = Len(mergedData[1])
       /\ \A c \in LoadedColumns(translatedFiles) :
            \A i \in 1..Len(mergedData[1]) :
              Get(translatedMergedData'[1][i], c)
                = IF Truthy(Get(mergedData[1][i], "SKU"))
                  THEN OrElse(Get(mergedData[1][i], c), Empty)
                  ELSE Get(mergedData[1][i], c)]_vars

\* Category and description of a unified set of more than ROWS_PER_FILE
\* rows have gone through the round trip, the description in two files: a
\* row of the second file has its description, a row with a SKU that held
\* Category as undefined has got '', and the row with the empty SKU holds
\* Category as undefined as before.
RoundTripValueOrBlankWitness ==
  /\ Chunked
  /\ translatedMergedData # Null
  /\ imported # Null
  /\ imported[1].column = "description"
  /\ Len(imported[1].files) = 2
  /\ imported[1].outcome = "stored"
  /\ LET last == Len(mergedData[1])
     IN /\ Truthy(Get(mergedData[1][last], "description"))
        /\ Get(translatedMergedData[1][last], "description")
             = Get(mergedData[1][last], "description")
  /\ \E i \in 1..MaxUnified :
       /\ Truthy(Get(mergedData[1][i], "SKU"))
       /\ Get(mergedData[1][i], "Category") = Undefined
       /\ Get(translatedMergedData[1][i], "Category") = Empty
  /\ \E i \in 1..MaxUnified :
       /\ ~Truthy(Get(mergedData[1][i], "SKU"))
       /\ Get(mergedData[1][i], "Category") = Undefined
       /\ Get(translatedMergedData[1][i], "Category") = Undefined

====
